---------------------------- MODULE Spec2Model ----------------------------
(***************************************************************************)
(* Workload synthesis pipeline of generate_vdc_workload.py:                *)
(*   sort_events -> sanitize -> batch_vdcs -> _chop_vdcs -> _add_network   *)
(*   -> _check_virtual_network.                                            *)
(* VM uuids are modelled by the integers 1..n, ordered as the uuid strings *)
(* are; VDC uuids are strings, so that a child uuid is really built by     *)
(* concatenation.  The ram_in_gb field of an event is carried through      *)
(* untouched by every stage and is left out.                               *)
(***************************************************************************)
EXTENDS Integers, Sequences, FiniteSets, TLC

VARIABLES
    ARGS,             \* __main__: the parsed command line
    output,           \* __main__: the records written to the output file
    second_run,       \* the outcome of replaying ml_workload once more
    first_run,        \* the workload of an earlier run on the same rows
    server,           \* <<>>, or the one Server object that was built
    pc,               \* the stage generate_ml has reached
    err,              \* "" or the exception that ended the run
    csv,              \* rows of the vmtable file, in file order
    sorted_csv,       \* result of sort_events
    events_sorted,    \* sanitize: tick -> list of events
    vm_lifetime,      \* sanitize: vm -> create_tick, delete_tick, lifetime
    counters,         \* sanitize: its diagnostic counters
    batched,          \* result of batch_vdcs: list of (tick, events)
    max_vdc_size,     \* parameter of _chop_vdcs
    tick_i,           \* _chop_vdcs: index of the tick being processed
    event_i,          \* _chop_vdcs: index of the next event of the first pass
    vdc_child_index,  \* _chop_vdcs locals
    vdc_uuid_map,
    vdc_alive_vms,
    vm2vdc,
    vm_peers,
    band_per_core,    \* parameter of _add_network
    ml_workload,      \* result of _add_network
    peer_vms,         \* _check_virtual_network: the graph and the outcome
    reached_max,      \* history: the physical VDCs whose alive count has
                      \* been max_vdc_size at some point of the replay
    overflowed        \* history: the pairs (logical VDC, physical VDC) of
                      \* the create events that found the physical VDC
                      \* full, so that a child VDC was made instead

vars == <<ARGS, output, second_run, first_run, server, pc, err, csv, sorted_csv, events_sorted, vm_lifetime, counters,
          batched, max_vdc_size, tick_i, event_i, vdc_child_index,
          vdc_uuid_map, vdc_alive_vms, vm2vdc, vm_peers, band_per_core,
          ml_workload, peer_vms, reached_max, overflowed>>

(***************************************************************************)
(* Bounds of the model.                                                    *)
(***************************************************************************)
MaxVms == 3
MaxRawVms == 2
MaxVdcSize == 2
MaxBandPerCore == 2
MaxStreamEvents == 3
MaxCheckEvents == 4

(***************************************************************************)
(* Program constants (lib/constants.py, and the locals of sanitize).       *)
(***************************************************************************)
VM_CREATE_STR == "create"
VM_DELETE_STR == "delete"
MAX_PEAK_VDC_SIZE == 30
\* a bug: a drift that is not the one of the listed timestamps
TIME_DRIFT_OF_200 == 2 * 100

TIME_DRIFT == 100

INVALID_TIMESTAMPS ==
    {2556100, 2002300, 2001400, 2559700, 2393800, 2312200,
     2580700, 2001100, 2458900, 1728700, 2271700, 2278900,
     2557600, 2005900, 2004400, 2569000, 2395300, 2313100,
     2581300, 2079100, 2591500}
VDC_CONCAT_STR == "__"
sec_in_5mins == 300
total_items == 12 * 24 * 30

(***************************************************************************)
(* Dictionaries are functions with a growing domain.                       *)
(***************************************************************************)
EmptyDict == [x \in {} |-> 0]
Put(d, k, v) == [x \in (DOMAIN d) \cup {k} |-> IF x = k THEN v ELSE d[x]]

RECURSIVE SeqSum(_)
SeqSum(s) == IF s = <<>> THEN 0 ELSE Head(s) + SeqSum(Tail(s))

SeqToSet(s) == {s[i] : i \in 1..Len(s)}

RECURSIVE SortedTicks(_)
SortedTicks(S) ==
    IF S = {} THEN <<>>
    ELSE LET m == CHOOSE x \in S : \A y \in S : x <= y
         IN <<m>> \o SortedTicks(S \ {m})

(***************************************************************************)
(* The traces the model runs the pipeline on.                              *)
(***************************************************************************)
\* logical VDC uuids of the traces, in Python's string order
VDC_ORDER == <<"d0", "d0__0", "d1">>

\* two VDC uuids without the separator of child uuids
LogicalVdcs == {"d0", "d1"}

\* a VDC uuid and a second one that reads as the first child of it
ClashingVdcs == {"d0", "d0" \o VDC_CONCAT_STR \o "0"}
\* half a core and one core, in units of 1/CoreUnit
Cores == {1, 2}
\* three consecutive ticks of the 5-minute grid
GridSample == {0, 300, 600}
\* raw timestamps: two known-invalid ones, the grid ticks around them, and
\* one that is neither
RawSample == {2001000, 2001100, 2001300, 2001400, 2001450, 2001600}
AllTimes == GridSample \cup RawSample

(***************************************************************************)
(* sort_events                                                             *)
(***************************************************************************)
\* a bug: the rows are ordered by the creation time alone, and rows of one
\* creation time stay in the order of the file
TupleLessByFirst(a, b) == a[1] < b[1]

\* a bug: the tuples are compared by their second item
TupleLessBySecond(a, b) == a[2] < b[2]

\* Python's comparison of two (int, int) tuples
TupleLess(a, b) == a[1] < b[1] \/ (a[1] = b[1] /\ a[2] < b[2])

RowKey(row) == <<row.create_time, row.vm_uuid>>

\* sorted_csv[(create_time, vm_uuid)] = row
RECURSIVE DictOfRows(_, _)
DictOfRows(rows, d) ==
    IF rows = <<>> THEN d
    ELSE LET row == Head(rows)
             same == {i \in 1..Len(d) : RowKey(d[i]) = RowKey(row)}
         IN DictOfRows(Tail(rows),
                       IF same = {} THEN Append(d, row)
                       ELSE [i \in 1..Len(d) |-> IF i \in same THEN row ELSE d[i]])

RECURSIVE InsertRow(_, _)
InsertRow(s, row) ==
    IF s = <<>> THEN <<row>>
    ELSE IF TupleLess(RowKey(row), RowKey(Head(s))) THEN <<row>> \o s
    ELSE <<Head(s)>> \o InsertRow(Tail(s), row)

\* sorted(sorted_csv.items(), key=lambda key: key[0])
RECURSIVE SortRows(_)
SortRows(d) ==
    IF d = <<>> THEN <<>> ELSE InsertRow(SortRows(SubSeq(d, 1, Len(d) - 1)), d[Len(d)])

\* the sanity check of the temporal order, prev_tick starting at 0
TemporalOrderOk(s) ==
    \A i \in 1..Len(s) : s[i].create_time >= (IF i = 1 THEN 0 ELSE s[i - 1].create_time)

SortEvents ==
    /\ pc = "start"
    /\ LET s == SortRows(DictOfRows(csv, <<>>))
       IN IF TemporalOrderOk(s)
          THEN /\ sorted_csv' = s
               /\ pc' = "sorted"
               /\ err' = err
          ELSE /\ sorted_csv' = <<>>
               /\ pc' = "abort"
               /\ err' = "AssertionError: sort_events"
    /\ UNCHANGED <<ARGS, output, second_run, first_run, server, reached_max, overflowed, csv, events_sorted, vm_lifetime, counters, batched,
                   max_vdc_size, tick_i, event_i, vdc_child_index, vdc_uuid_map,
                   vdc_alive_vms, vm2vdc, vm_peers, band_per_core, ml_workload,
                   peer_vms>>

(***************************************************************************)
(* sanitize                                                                *)
(***************************************************************************)
\* a bug: every timestamp off the grid is rounded down to the grid
ValidateEventTimeRounding(event_time) ==
    IF event_time % 300 # 0
    THEN <<event_time - (event_time % 300), TRUE>>
    ELSE <<event_time, FALSE>>

\* returns (event_time, status)
ValidateEventTime(event_time) ==
    IF event_time \in INVALID_TIMESTAMPS
    THEN <<event_time - TIME_DRIFT, TRUE>>
    ELSE <<event_time, FALSE>>

\* a bug: events_sorted takes any key, as a defaultdict would
AnyTick(t) == TRUE

\* the keys events_sorted is filled up with: time_unit * sec_in_5mins
IsGridTick(t) == t >= 0 /\ t % sec_in_5mins = 0 /\ t \div sec_in_5mins < total_items

\* the grid ticks a modelled trace can reach; every other tick of the grid
\* keeps its empty list
ModelTicks ==
    {t \in AllTimes \cup {x - TIME_DRIFT : x \in AllTimes} : IsGridTick(t)}

CreateEvent(row) ==
    [type |-> VM_CREATE_STR, vdc_uuid |-> row.vdc_uuid, vm_uuid |-> row.vm_uuid,
     cores |-> row.cores]

DeleteEvent(row) ==
    [type |-> VM_DELETE_STR, vdc_uuid |-> row.vdc_uuid, vm_uuid |-> row.vm_uuid]

SanitizeStart ==
    [events |-> [t \in ModelTicks |-> <<>>], lifetime |-> EmptyDict,
     num_of_insta_vms |-> 0, vm_creates_total |-> 0, vm_creates_in |-> 0,
     invalid_creates |-> 0, invalid_deletes |-> 0, error |-> ""]

\* a bug: >= for >
LifetimeNotNegative(create_tick, delete_tick) == delete_tick - create_tick >= 0

\* a bug: the lifetime of a VM is not looked at
LifetimeUnchecked(create_tick, delete_tick) == TRUE

\* assert(vm_lifetime[vm_id]['lifetime'] > 0)
LifetimeOk(create_tick, delete_tick) == delete_tick - create_tick > 0

\* a bug: a row that ends before it starts is taken for an insta-VM
IsInstaVmOrReversed(row) == row.create_time >= row.delete_time

\* if create_time == delete_time
IsInstaVm(row) == row.create_time = row.delete_time

\* a bug: the DELETE event is appended to the tick of the CREATE event
EmitEventsBothAtCreate(events, create_time, delete_time, row) ==
    [t \in DOMAIN events |->
       IF t = create_time
       THEN events[t] \o <<CreateEvent(row), DeleteEvent(row)>>
       ELSE events[t]]

\* events_sorted[create_time].append(...), events_sorted[delete_time].append(...)
EmitEvents(events, create_time, delete_time, row) ==
    [t \in DOMAIN events |->
       LET withCreate == IF t = create_time
                         THEN Append(events[t], CreateEvent(row))
                         ELSE events[t]
       IN IF t = delete_time
          THEN Append(withCreate, DeleteEvent(row))
          ELSE withCreate]

\* one iteration of the loop over sorted_csv.values()
SanitizeRow(st, row) ==
    LET total == [st EXCEPT !.vm_creates_total = @ + 1]
        c == ValidateEventTime(row.create_time)
        d == ValidateEventTime(row.delete_time)
        counted == [total EXCEPT
                      !.vm_creates_in = @ + 1,
                      !.invalid_creates = IF c[2] THEN @ + 1 ELSE @,
                      !.invalid_deletes = IF d[2] THEN @ + 1 ELSE @,
                      !.lifetime = Put(@, row.vm_uuid,
                                       [create_tick |-> c[1], delete_tick |-> d[1],
                                        lifetime |-> d[1] - c[1]])]
    IN IF st.error # "" THEN st
       ELSE IF IsInstaVm(row)
       THEN [total EXCEPT !.num_of_insta_vms = @ + 1]
       ELSE IF ~(row.create_time < row.delete_time)
       THEN [total EXCEPT !.error = "AssertionError: create_time < delete_time"]
       ELSE IF ~LifetimeOk(c[1], d[1])
       THEN [counted EXCEPT !.error = "AssertionError: lifetime > 0"]
       ELSE IF ~IsGridTick(c[1])
       THEN [counted EXCEPT !.error = "KeyError: create_time"]
       ELSE IF ~IsGridTick(d[1])
       THEN [counted EXCEPT !.error = "KeyError: delete_time"]
       ELSE [counted EXCEPT !.events = EmitEvents(@, c[1], d[1], row)]

RECURSIVE SanitizeRows(_, _)
SanitizeRows(st, rows) ==
    IF rows = <<>> THEN st
    ELSE SanitizeRows(SanitizeRow(st, Head(rows)), Tail(rows))

\* get_vdc_stats: the number of create events in all ticks
NumCreateEvents(events) ==
    SeqSum([i \in 1..Len(SortedTicks(DOMAIN events)) |->
              Cardinality({j \in 1..Len(events[SortedTicks(DOMAIN events)[i]]) :
                             events[SortedTicks(DOMAIN events)[i]][j].type = VM_CREATE_STR})])

\* the checks and the log lines that follow the loop
SanitizeEnd(st, rows) ==
    IF st.error # "" THEN st
    ELSE IF Len(rows) # st.vm_creates_total \/ NumCreateEvents(st.events) # st.vm_creates_in
    THEN [st EXCEPT !.error = "AssertionError: nvms_total"]
    ELSE IF st.vm_creates_total = 0
    THEN [st EXCEPT !.error = "ZeroDivisionError"]
    ELSE st

Sanitize ==
    /\ pc = "sorted"
    /\ LET st == SanitizeEnd(SanitizeRows(SanitizeStart, sorted_csv), sorted_csv)
       IN /\ counters' = [k \in {"num_of_insta_vms", "vm_creates_total", "vm_creates_in",
                                 "invalid_creates", "invalid_deletes"} |-> st[k]]
          /\ IF st.error = ""
             THEN /\ events_sorted' = st.events
                  /\ vm_lifetime' = st.lifetime
                  /\ pc' = "sanitized"
                  /\ err' = err
             ELSE /\ UNCHANGED <<events_sorted, vm_lifetime>>
                  /\ pc' = "abort"
                  /\ err' = st.error
    /\ UNCHANGED <<ARGS, output, second_run, first_run, server, reached_max, overflowed, csv, sorted_csv, batched, max_vdc_size, tick_i, event_i,
                   vdc_child_index, vdc_uuid_map, vdc_alive_vms, vm2vdc, vm_peers,
                   band_per_core, ml_workload, peer_vms>>

(***************************************************************************)
(* batch_vdcs                                                              *)
(***************************************************************************)
\* Python's comparison of two VDC uuid strings
VdcRank(v) == CHOOSE i \in 1..Len(VDC_ORDER) : VDC_ORDER[i] = v

\* a bug: the key is the VDC uuid alone
EventKeyVdcOnly(e) == <<VdcRank(e.vdc_uuid), 0>>

\* (vm_event[VDC_UUID_STR], vm_event[VM_UUID_STR])
EventKey(e) == <<VdcRank(e.vdc_uuid), e.vm_uuid>>

\* events_in_tick[(vdc_uuid, vm_uuid)] = vm_event
RECURSIVE DictOfEvents(_, _)
DictOfEvents(events, d) ==
    IF events = <<>> THEN d
    ELSE LET e == Head(events)
             same == {i \in 1..Len(d) : EventKey(d[i]) = EventKey(e)}
         IN DictOfEvents(Tail(events),
                         IF same = {} THEN Append(d, e)
                         ELSE [i \in 1..Len(d) |-> IF i \in same THEN e ELSE d[i]])

RECURSIVE InsertEvent(_, _)
InsertEvent(s, e) ==
    IF s = <<>> THEN <<e>>
    ELSE IF TupleLess(EventKey(e), EventKey(Head(s))) THEN <<e>> \o s
    ELSE <<Head(s)>> \o InsertEvent(Tail(s), e)

\* sorted(events_in_tick.items(), key=lambda key: key[0])
RECURSIVE SortEventsByKey(_)
SortEventsByKey(d) ==
    IF d = <<>> THEN <<>>
    ELSE InsertEvent(SortEventsByKey(SubSeq(d, 1, Len(d) - 1)), d[Len(d)])

\* a bug: delete events are appended as create events are
RECURSIVE FillDequeRight(_, _)
FillDequeRight(events, dq) ==
    IF events = <<>> THEN dq
    ELSE FillDequeRight(Tail(events), Append(dq, Head(events)))

\* a bug: the two ends are mixed up, create events come before delete events
RECURSIVE FillDequeCreatesFirst(_, _)
FillDequeCreatesFirst(events, dq) ==
    IF events = <<>> THEN dq
    ELSE FillDequeCreatesFirst(Tail(events),
                               IF Head(events).type = VM_CREATE_STR
                               THEN <<Head(events)>> \o dq
                               ELSE Append(dq, Head(events)))

\* the deque: create events are appended, delete events are appended left
RECURSIVE FillDeque(_, _)
FillDeque(events, dq) ==
    IF events = <<>> THEN dq
    ELSE FillDeque(Tail(events),
                   IF Head(events).type = VM_CREATE_STR THEN Append(dq, Head(events))
                   ELSE <<Head(events)>> \o dq)

BatchTick(vm_events) == FillDeque(SortEventsByKey(DictOfEvents(vm_events, <<>>)), <<>>)

RECURSIVE BatchTicks(_, _)
BatchTicks(events, ticks) ==
    IF ticks = <<>> THEN <<>>
    ELSE IF Len(events[Head(ticks)]) = 0 THEN BatchTicks(events, Tail(ticks))
    ELSE <<[tick |-> Head(ticks), events |-> BatchTick(events[Head(ticks)])]>>
         \o BatchTicks(events, Tail(ticks))

BatchVdcs ==
    /\ pc = "sanitized"
    /\ batched' = BatchTicks(events_sorted, SortedTicks(DOMAIN events_sorted))
    /\ pc' = "batched"
    /\ UNCHANGED <<ARGS, output, second_run, first_run, server, reached_max, overflowed, err, csv, sorted_csv, events_sorted, vm_lifetime, counters,
                   max_vdc_size, tick_i, event_i, vdc_child_index, vdc_uuid_map,
                   vdc_alive_vms, vm2vdc, vm_peers, band_per_core, ml_workload,
                   peer_vms>>

(***************************************************************************)
(* _chop_vdcs: one step per event of the first pass over a tick, one step  *)
(* for the second pass over the tick.                                      *)
(***************************************************************************)
\* '{}{}{}'.format(parent_vdc_uuid, VDC_CONCAT_STR, vdc_child_index[parent_vdc_uuid])
ChildVdcUuid(parent_vdc_uuid, index) ==
    parent_vdc_uuid \o VDC_CONCAT_STR \o ToString(index)

\* a bug: the first child gets index 1
NextChildIndexFromOne(child_index, parent_vdc_uuid) ==
    IF parent_vdc_uuid \in DOMAIN child_index
    THEN child_index[parent_vdc_uuid] + 1
    ELSE 1

\* _get_child_vdc_uuid: the index it leaves in vdc_child_index
NextChildIndex(child_index, parent_vdc_uuid) ==
    IF parent_vdc_uuid \in DOMAIN child_index
    THEN child_index[parent_vdc_uuid] + 1
    ELSE 0

\* a bug: <= for <
HasRoomInclusive(alive, max_size) == Len(alive) <= max_size

\* len(vdc_alive_vms[vdc_uuid_current]) < max_vdc_size
HasRoom(alive, max_size) == Len(alive) < max_size

\* a bug: back to the parent once it has become empty
CurrentVdcBackToEmptyParent(uuid_map, alive_vms, max_size, vdc) ==
    IF alive_vms[vdc] = <<>> THEN vdc ELSE uuid_map[vdc]

\* a bug (or a packing optimisation): back to the parent when it has room
CurrentVdcReopened(uuid_map, alive_vms, max_size, vdc) ==
    IF Len(alive_vms[vdc]) < max_size THEN vdc ELSE uuid_map[vdc]

\* vdc_uuid_current = vdc_uuid_map[event[const.VDC_UUID_STR]]
CurrentVdc(uuid_map, alive_vms, max_size, vdc) == uuid_map[vdc]

\* a bug: the VM is removed from a copy of the list
RemoveFromCopy(alive, vm) == alive

\* a bug: the oldest VM of the list goes, whichever VM is deleted
RemoveOldest(alive, vm) == Tail(alive)

\* list.remove: the first occurrence goes
RECURSIVE RemoveVm(_, _)
RemoveVm(alive, vm) ==
    IF alive = <<>> THEN <<>>
    ELSE IF Head(alive) = vm THEN Tail(alive)
    ELSE <<Head(alive)>> \o RemoveVm(Tail(alive), vm)

\* a bug: the filter is forgotten
PeersUnfiltered(all_vm_peers, vm) == all_vm_peers

\* [pvm for pvm in all_vm_peers if pvm != vm]
RECURSIVE PeersExcept(_, _)
PeersExcept(all_vm_peers, vm) ==
    IF all_vm_peers = <<>> THEN <<>>
    ELSE IF Head(all_vm_peers) # vm
    THEN <<Head(all_vm_peers)>> \o PeersExcept(Tail(all_vm_peers), vm)
    ELSE PeersExcept(Tail(all_vm_peers), vm)

\* the stage reached when the loop over the ticks moves to tick i
EnterTick(i) ==
    IF i > Len(batched) THEN "chopped"
    ELSE IF Len(batched[i].events) = 0 THEN "abort"
    ELSE "chop"

\* the entry of _chop_vdcs(batched_vdcs, m)
ChopStartWith(m) ==
    /\ pc = "batched"
    /\ max_vdc_size' = m
    /\ vdc_child_index' = EmptyDict
    /\ vdc_uuid_map' = EmptyDict
    /\ vdc_alive_vms' = EmptyDict
    /\ vm2vdc' = EmptyDict
    /\ vm_peers' = EmptyDict
    /\ tick_i' = 1
    /\ event_i' = 1
    /\ reached_max' = {}
    /\ overflowed' = {}
    /\ pc' = EnterTick(1)
    /\ err' = IF EnterTick(1) = "abort" THEN "AssertionError: empty tick" ELSE err
    /\ UNCHANGED <<ARGS, output, second_run, first_run, server, csv, sorted_csv, events_sorted, vm_lifetime, counters, batched,
                   band_per_core, ml_workload, peer_vms>>

\* _chop_vdcs called with any maximum
ChopStart == \E m \in 1..MaxVdcSize : ChopStartWith(m)

\* _chop_vdcs as generate_ml calls it:
\* max_vdc_size = const.MAX_PEAK_VDC_SIZE, whatever the command line says
ChopStartML == ChopStartWith(MAX_PEAK_VDC_SIZE)

\* the event the first pass is at
CurrentEvent == batched[tick_i].events[event_i]

\* a bug: the delete event of a VM that is not known is skipped
ChopDeleteSkipUnknown(event) ==
    LET vm == event.vm_uuid
    IN IF vm \notin DOMAIN vm2vdc
       THEN UNCHANGED <<pc, err, vdc_alive_vms>>
       ELSE IF vm2vdc[vm] \notin DOMAIN vdc_alive_vms
       THEN /\ pc' = "abort"
            /\ err' = "AssertionError: vdc_alive_vms"
            /\ UNCHANGED vdc_alive_vms
       ELSE IF vm \notin SeqToSet(vdc_alive_vms[vm2vdc[vm]])
       THEN /\ pc' = "abort"
            /\ err' = "ValueError: list.remove"
            /\ UNCHANGED vdc_alive_vms
       ELSE /\ vdc_alive_vms' =
                  [vdc_alive_vms EXCEPT ![vm2vdc[vm]] = RemoveVm(@, vm)]
            /\ UNCHANGED <<pc, err>>

\* if event[const.TYPE_STR] == const.VM_DELETE_STR: ... continue
ChopDelete(event) ==
    LET vm == event.vm_uuid
    IN IF vm \notin DOMAIN vm2vdc
       THEN /\ pc' = "abort"
            /\ err' = "KeyError: vm2vdc"
            /\ UNCHANGED vdc_alive_vms
       ELSE LET vdc_uuid_current == vm2vdc[vm]
            IN IF vdc_uuid_current \notin DOMAIN vdc_alive_vms
               THEN /\ pc' = "abort"
                    /\ err' = "AssertionError: vdc_alive_vms"
                    /\ UNCHANGED vdc_alive_vms
               ELSE IF vm \notin SeqToSet(vdc_alive_vms[vdc_uuid_current])
               THEN /\ pc' = "abort"
                    /\ err' = "ValueError: list.remove"
                    /\ UNCHANGED vdc_alive_vms
               ELSE /\ vdc_alive_vms' =
                          [vdc_alive_vms EXCEPT ![vdc_uuid_current] = RemoveVm(@, vm)]
                    /\ UNCHANGED <<pc, err>>

ChopCreate(event) ==
    LET vm == event.vm_uuid
        vdc == event.vdc_uuid
    IN IF vdc \notin DOMAIN vdc_uuid_map
       THEN \* the first ever VM of this parent VDC
            /\ vdc_uuid_map' = Put(vdc_uuid_map, vdc, vdc)
            /\ vm2vdc' = Put(vm2vdc, vm, vdc)
            /\ vdc_alive_vms' = Put(vdc_alive_vms, vdc, <<vm>>)
            /\ UNCHANGED <<vdc_child_index, overflowed>>
       ELSE LET vdc_uuid_current ==
                    CurrentVdc(vdc_uuid_map, vdc_alive_vms, max_vdc_size, vdc)
            IN IF HasRoom(vdc_alive_vms[vdc_uuid_current], max_vdc_size)
               THEN /\ vdc_alive_vms' =
                          [vdc_alive_vms EXCEPT ![vdc_uuid_current] = Append(@, vm)]
                    /\ vm2vdc' = Put(vm2vdc, vm, vdc_uuid_current)
                    /\ UNCHANGED <<vdc_uuid_map, vdc_child_index, overflowed>>
               ELSE \* time to create (yet another) child VDC
                    LET index == NextChildIndex(vdc_child_index, vdc)
                        child_vdc_uuid == ChildVdcUuid(vdc, index)
                    IN /\ vdc_child_index' = Put(vdc_child_index, vdc, index)
                       /\ vdc_alive_vms' = Put(vdc_alive_vms, child_vdc_uuid, <<vm>>)
                       /\ vdc_uuid_map' = Put(vdc_uuid_map, vdc, child_vdc_uuid)
                       /\ vm2vdc' = Put(vm2vdc, vm, child_vdc_uuid)
                       /\ overflowed' = overflowed \cup {<<vdc, vdc_uuid_current>>}

\* the first iteration over the events of a tick, one event
ChopEvent ==
    /\ pc = "chop"
    /\ event_i <= Len(batched[tick_i].events)
    /\ event_i' = event_i + 1
    /\ IF CurrentEvent.type = VM_DELETE_STR
       THEN /\ ChopDelete(CurrentEvent)
            /\ UNCHANGED <<vdc_uuid_map, vdc_child_index, vm2vdc, overflowed>>
       ELSE /\ ChopCreate(CurrentEvent)
            /\ UNCHANGED <<pc, err>>
    /\ reached_max' = reached_max \cup
           {v \in DOMAIN vdc_alive_vms' : Len(vdc_alive_vms'[v]) >= max_vdc_size}
    /\ UNCHANGED <<ARGS, output, second_run, first_run, server, csv, sorted_csv, events_sorted, vm_lifetime, counters, batched,
                   max_vdc_size, tick_i, vm_peers, band_per_core, ml_workload,
                   peer_vms>>

\* a bug: the alive list is looked up by the VDC uuid of the event and not
\* by the physical VDC of the VM
PeersOfTickByEventVdc(events, peers) ==
    LET creates == {j \in 1..Len(events) : events[j].type = VM_CREATE_STR}
        logical(vm) == (CHOOSE j \in creates : events[j].vm_uuid = vm)
    IN [vm \in (DOMAIN peers) \cup {events[i].vm_uuid : i \in creates} |->
          IF \E i \in creates : events[i].vm_uuid = vm
          THEN PeersExcept(vdc_alive_vms[events[logical(vm)].vdc_uuid], vm)
          ELSE peers[vm]]

\* a bug: the peers are taken when the create event is met in the first
\* iteration, before the later create events of the tick are applied
PeersOfTickAtCreate(events, peers) ==
    LET creates == {j \in 1..Len(events) : events[j].type = VM_CREATE_STR}
        created == {events[i].vm_uuid : i \in creates}
        later(vm) == {events[j].vm_uuid :
                        j \in {k \in creates :
                                 \E i \in creates : i < k /\ events[i].vm_uuid = vm}}
    IN [vm \in (DOMAIN peers) \cup created |->
          IF vm \in created
          THEN SelectSeq(vdc_alive_vms[vm2vdc[vm]],
                         LAMBDA x : x # vm /\ x \notin later(vm))
          ELSE peers[vm]]

\* a bug: the peer list is the alive list itself and not a copy of it, so
\* that the lists of the VMs alive follow the later events
PeersOfTickLive(events, peers) ==
    LET created == {events[i].vm_uuid :
                      i \in {j \in 1..Len(events) : events[j].type = VM_CREATE_STR}}
    IN [vm \in (DOMAIN peers) \cup created |->
          IF vm \in created \/ vm \in SeqToSet(vdc_alive_vms[vm2vdc[vm]])
          THEN PeersExcept(vdc_alive_vms[vm2vdc[vm]], vm)
          ELSE peers[vm]]

\* a bug: the VMs made in the tick are left out of the peer lists of the tick
PeersOfTickOlderOnly(events, peers) ==
    LET created == {events[i].vm_uuid :
                      i \in {j \in 1..Len(events) : events[j].type = VM_CREATE_STR}}
    IN [vm \in (DOMAIN peers) \cup created |->
          IF vm \in created
          THEN SelectSeq(vdc_alive_vms[vm2vdc[vm]], LAMBDA x : x \notin created)
          ELSE peers[vm]]

\* vm_peers after the second iteration over the events of a tick
RECURSIVE PeersOfTick(_, _)
PeersOfTick(events, peers) ==
    IF events = <<>> THEN peers
    ELSE IF Head(events).type = VM_DELETE_STR THEN PeersOfTick(Tail(events), peers)
    ELSE PeersOfTick(Tail(events),
                     Put(peers, Head(events).vm_uuid,
                         PeersExcept(vdc_alive_vms[vm2vdc[Head(events).vm_uuid]],
                                     Head(events).vm_uuid)))

\* the second iteration over the events of a tick, and the move to the next tick
ChopPeers ==
    /\ pc = "chop"
    /\ event_i > Len(batched[tick_i].events)
    /\ vm_peers' = PeersOfTick(batched[tick_i].events, vm_peers)
    /\ tick_i' = tick_i + 1
    /\ event_i' = 1
    /\ pc' = EnterTick(tick_i + 1)
    /\ err' = IF EnterTick(tick_i + 1) = "abort" THEN "AssertionError: empty tick" ELSE err
    /\ UNCHANGED <<ARGS, output, second_run, first_run, server, reached_max, overflowed, csv, sorted_csv, events_sorted, vm_lifetime, counters, batched,
                   max_vdc_size, vdc_child_index, vdc_uuid_map, vdc_alive_vms, vm2vdc,
                   band_per_core, ml_workload, peer_vms>>

(***************************************************************************)
(* _add_network                                                            *)
(***************************************************************************)
\* Core counts are floats in the program (float(row[9])).  The model counts
\* cores in units of 1/CoreUnit, so that a core count of 0.5 is a value and
\* int() has something to cut.
CoreUnit == 2

\* a bug: max for min
MaxOfTwo(a, b) == IF a <= b THEN b ELSE a

\* Python's min of two numbers
Min(a, b) == IF a <= b THEN a ELSE b

\* a bug: the bandwidth follows the cores of the VM itself
BandwidthOfOwnCores(bpc, cores, peer_cores) == (bpc * cores) \div CoreUnit

\* int(band_per_core * min_cores)
Bandwidth(bpc, cores, peer_cores) == (bpc * Min(cores, peer_cores)) \div CoreUnit

\* all events of a tick -> events mapping, tick by tick
RECURSIVE AllEvents(_)
AllEvents(ticks) ==
    IF ticks = <<>> THEN <<>> ELSE Head(ticks).events \o AllEvents(Tail(ticks))

\* the first loop: vm_cores_dict
RECURSIVE VmCoresDict(_, _)
VmCoresDict(events, d) ==
    IF events = <<>> THEN d
    ELSE VmCoresDict(Tail(events),
                     IF Head(events).type = VM_CREATE_STR
                     THEN Put(d, Head(events).vm_uuid, Head(events).cores)
                     ELSE d)

\* conn: the peers in the order of vm_peers, each with its bandwidth
Conn(event, vm_cores_dict, bpc) ==
    [i \in 1..Len(vm_peers[event.vm_uuid]) |->
       [peer |-> vm_peers[event.vm_uuid][i],
        band |-> Bandwidth(bpc, event.cores,
                           vm_cores_dict[vm_peers[event.vm_uuid][i]])]]

\* a bug: only the CREATE events get the physical VDC
NetworkedEventCreateOnly(event, vm_cores_dict, bpc) ==
    IF event.type = VM_DELETE_STR
    THEN event
    ELSE [type |-> event.type, vdc_uuid |-> vm2vdc[event.vm_uuid],
          vm_uuid |-> event.vm_uuid, cores |-> event.cores,
          net_conns_in_mbps |-> Conn(event, vm_cores_dict, bpc)]

\* what the second loop makes of one event
NetworkedEvent(event, vm_cores_dict, bpc) ==
    IF event.type = VM_DELETE_STR
    THEN [event EXCEPT !.vdc_uuid = vm2vdc[event.vm_uuid]]
    ELSE [type |-> event.type, vdc_uuid |-> vm2vdc[event.vm_uuid],
          vm_uuid |-> event.vm_uuid, cores |-> event.cores,
          net_conns_in_mbps |-> Conn(event, vm_cores_dict, bpc)]

NetworkedEvents(events, vm_cores_dict, bpc) ==
    [i \in 1..Len(events) |-> NetworkedEvent(events[i], vm_cores_dict, bpc)]

\* tick_str = '{}{}'.format(const.TICK_STR, tick)
TickStr(tick) == "tick_" \o ToString(tick)

\* The events are changed in place: the lists of batched and of events_sorted
\* hold the same event objects as the returned workload.
AddNetworkWith(bpc) ==
    /\ pc = "chopped"
    /\ LET vm_cores_dict == VmCoresDict(AllEvents(batched), EmptyDict)
       IN   /\ band_per_core' = bpc
            /\ ml_workload' =
                 [i \in 1..Len(batched) |->
                    [tick_str |-> TickStr(batched[i].tick),
                     events |-> NetworkedEvents(batched[i].events, vm_cores_dict, bpc)]]
            /\ batched' =
                 [i \in 1..Len(batched) |->
                    [batched[i] EXCEPT
                       !.events = NetworkedEvents(@, vm_cores_dict, bpc)]]
            /\ events_sorted' =
                 [t \in DOMAIN events_sorted |->
                    NetworkedEvents(events_sorted[t], vm_cores_dict, bpc)]
    /\ pc' = "networked"
    /\ UNCHANGED <<ARGS, output, second_run, first_run, server, reached_max, overflowed, err, csv, sorted_csv, vm_lifetime, counters, max_vdc_size, tick_i,
                   event_i, vdc_child_index, vdc_uuid_map, vdc_alive_vms, vm2vdc,
                   vm_peers, peer_vms>>

\* _add_network called with any bandwidth per core
AddNetwork == \E bpc \in 0..MaxBandPerCore : AddNetworkWith(bpc)

(***************************************************************************)
(* _check_virtual_network                                                  *)
(***************************************************************************)
EmptyGraph == [nodes |-> {}, edges |-> EmptyDict, error |-> "", failed_at |-> 0]

\* a bug: the node goes, its edges stay
RemoveNodeKeepEdges(g, vm) == [g EXCEPT !.nodes = @ \ {vm}]

\* networkx.Graph.remove_node: the node and its edges
RemoveNode(g, vm) ==
    [g EXCEPT !.nodes = @ \ {vm},
              !.edges = [e \in {x \in DOMAIN @ : vm \notin x} |-> @[e]]]

\* a bug: an edge that is met again is taken out without a look at its weight
RECURSIVE CheckConnsAnyWeight(_, _, _)
CheckConnsAnyWeight(g, src_vm, conns) ==
    IF conns = <<>> \/ g.error # "" THEN g
    ELSE LET peer_vm == Head(conns).peer
             band == Head(conns).band
             edge == {src_vm, peer_vm}
         IN IF ~(band > 0)
            THEN [g EXCEPT !.error = "AssertionError: band > 0"]
            ELSE IF edge \in DOMAIN g.edges
            THEN CheckConnsAnyWeight(
                     [g EXCEPT !.edges = [e \in DOMAIN @ \ {edge} |-> @[e]]],
                     src_vm, Tail(conns))
            ELSE CheckConnsAnyWeight([g EXCEPT !.nodes = @ \cup edge,
                                              !.edges = Put(@, edge, band)],
                                     src_vm, Tail(conns))

\* a bug: a bandwidth of zero is taken for an edge weight like any other
RECURSIVE CheckConnsAnyBand(_, _, _)
CheckConnsAnyBand(g, src_vm, conns) ==
    IF conns = <<>> \/ g.error # "" THEN g
    ELSE LET peer_vm == Head(conns).peer
             band == Head(conns).band
             edge == {src_vm, peer_vm}
         IN IF edge \in DOMAIN g.edges
            THEN IF g.edges[edge] # band
                 THEN [g EXCEPT !.error = "AssertionError: weight == band"]
                 ELSE CheckConnsAnyBand(
                          [g EXCEPT !.edges = [e \in DOMAIN @ \ {edge} |-> @[e]]],
                          src_vm, Tail(conns))
            ELSE CheckConnsAnyBand([g EXCEPT !.nodes = @ \cup edge,
                                            !.edges = Put(@, edge, band)],
                                   src_vm, Tail(conns))

\* the loop over event[BW_STR].items()
RECURSIVE CheckConns(_, _, _)
CheckConns(g, src_vm, conns) ==
    IF conns = <<>> \/ g.error # "" THEN g
    ELSE LET peer_vm == Head(conns).peer
             band == Head(conns).band
             edge == {src_vm, peer_vm}
         IN IF ~(band > 0)
            THEN [g EXCEPT !.error = "AssertionError: band > 0"]
            ELSE IF edge \in DOMAIN g.edges
            THEN IF g.edges[edge] # band
                 THEN [g EXCEPT !.error = "AssertionError: weight == band"]
                 ELSE CheckConns([g EXCEPT !.edges = [e \in DOMAIN @ \ {edge} |-> @[e]]],
                                 src_vm, Tail(conns))
            ELSE CheckConns([g EXCEPT !.nodes = @ \cup edge,
                                      !.edges = Put(@, edge, band)],
                            src_vm, Tail(conns))

CheckEvent(g, event) ==
    IF event.type = VM_DELETE_STR
    THEN IF event.vm_uuid \in g.nodes THEN RemoveNode(g, event.vm_uuid) ELSE g
    ELSE CheckConns(g, event.vm_uuid, event.net_conns_in_mbps)

\* the replay; n events have been replayed before these
RECURSIVE CheckEvents(_, _, _)
CheckEvents(g, events, n) ==
    IF events = <<>> THEN g
    ELSE LET after == CheckEvent(g, Head(events))
         IN IF after.error # "" THEN [after EXCEPT !.failed_at = n + 1]
            ELSE CheckEvents(after, Tail(events), n + 1)

\* the two assertions on the graph that is left
CheckEnd(g) ==
    IF g.error # "" THEN g
    ELSE IF Cardinality(g.nodes) # 0 THEN [g EXCEPT !.error = "AssertionError: nodes"]
    ELSE IF Cardinality(DOMAIN g.edges) # 0 THEN [g EXCEPT !.error = "AssertionError: edges"]
    ELSE g

CheckVirtualNetworkOf(workload) ==
    IF \E i \in 1..Len(workload) : Len(workload[i].events) = 0
    THEN [EmptyGraph EXCEPT !.error = "AssertionError: empty tick"]
    ELSE CheckEnd(CheckEvents(EmptyGraph, AllEvents(workload), 0))

\* a bug: a failed assertion is swallowed and generate_ml returns
CheckPassedAlways(g) == TRUE

\* assert(_check_virtual_network(ml_workload)): no assertion of the replay
\* failed, so that True came back
CheckPassed(g) == g.error = ""

\* a bug: the replay takes the entries out of the connection maps it reads
CheckVirtualNetworkConsuming ==
    /\ pc = "networked"
    /\ peer_vms' = CheckVirtualNetworkOf(ml_workload)
    /\ ml_workload' =
         [i \in 1..Len(ml_workload) |->
            [ml_workload[i] EXCEPT
               !.events = [j \in 1..Len(@) |->
                             IF @[j].type = VM_CREATE_STR
                             THEN [@[j] EXCEPT !.net_conns_in_mbps = <<>>]
                             ELSE @[j]]]]
    /\ pc' = IF peer_vms'.error = "" THEN "checked" ELSE "abort"
    /\ err' = peer_vms'.error
    /\ UNCHANGED <<ARGS, output, second_run, first_run, server, reached_max, overflowed, csv, sorted_csv, events_sorted, vm_lifetime, counters, batched,
                   max_vdc_size, tick_i, event_i, vdc_child_index, vdc_uuid_map,
                   vdc_alive_vms, vm2vdc, vm_peers, band_per_core>>

CheckVirtualNetwork ==
    /\ pc = "networked"
    /\ peer_vms' = CheckVirtualNetworkOf(ml_workload)
    /\ pc' = IF CheckPassed(peer_vms') THEN "checked" ELSE "abort"
    /\ err' = peer_vms'.error
    /\ UNCHANGED <<ARGS, output, second_run, first_run, server, reached_max, overflowed, csv, sorted_csv, events_sorted, vm_lifetime, counters, batched,
                   max_vdc_size, tick_i, event_i, vdc_child_index, vdc_uuid_map,
                   vdc_alive_vms, vm2vdc, vm_peers, band_per_core, ml_workload>>

\* _check_virtual_network called once more on the workload the first call
\* has left
CheckAgain ==
    /\ pc \in {"checked", "abort", "written"}
    /\ second_run = <<>>
    /\ second_run' = <<CheckVirtualNetworkOf(ml_workload)>>
    /\ UNCHANGED <<ARGS, output, first_run, server, pc, err, reached_max, overflowed, csv, sorted_csv, events_sorted,
                   vm_lifetime, counters, batched, max_vdc_size, tick_i, event_i,
                   vdc_child_index, vdc_uuid_map, vdc_alive_vms, vm2vdc, vm_peers,
                   band_per_core, ml_workload, peer_vms>>

(***************************************************************************)
(* __main__: the workload generate_ml returned is written, one record for  *)
(* each tick.                                                              *)
(***************************************************************************)
WriteOutput ==
    /\ pc = "checked"
    /\ output' = [i \in 1..Len(ml_workload) |-> ml_workload[i]]
    /\ pc' = "written"
    /\ UNCHANGED <<ARGS, second_run, first_run, server, err, reached_max, overflowed, csv, sorted_csv, events_sorted,
                   vm_lifetime, counters, batched, max_vdc_size, tick_i, event_i,
                   vdc_child_index, vdc_uuid_map, vdc_alive_vms, vm2vdc, vm_peers,
                   band_per_core, ml_workload, peer_vms>>

(***************************************************************************)
(* The runs.                                                               *)
(***************************************************************************)
\* what a row says besides the VM uuid
Attrs(vdcs, times, cores) ==
    [vdc_uuid : vdcs, create_time : times, delete_time : times, cores : cores]

\* a file of n rows with unique VM uuids, listed in descending uuid order
TraceOf(n, a) ==
    [i \in 1..n |->
       [vm_uuid |-> n + 1 - i, vdc_uuid |-> a[i].vdc_uuid,
        create_time |-> a[i].create_time, delete_time |-> a[i].delete_time,
        cores |-> a[i].cores]]

\* rows of one-core VMs on the grid that live for at least one tick
CleanAttrs ==
    {a \in Attrs(LogicalVdcs, GridSample, {CoreUnit}) : a.create_time < a.delete_time}

\* the same for one VDC, with VMs of half a core and of one core
NetAttrs ==
    {a \in Attrs({"d0"}, GridSample, Cores) : a.create_time < a.delete_time}

\* rows of one-core VMs on the grid whose VDC uuids may clash with a child uuid
ClashAttrs ==
    {a \in Attrs(ClashingVdcs, GridSample, {CoreUnit}) : a.create_time < a.delete_time}

\* rows of one-core VMs of one VDC on the grid
PermAttrs ==
    {a \in Attrs({"d0"}, GridSample, {CoreUnit}) : a.create_time < a.delete_time}

\* rows of one VDC with any pair of raw timestamps
RawAttrs == Attrs({"d0"}, RawSample, {CoreUnit})

\* nothing has run yet
InitState ==
    /\ pc = "start"
    /\ err = ""
    /\ sorted_csv = <<>>
    /\ events_sorted = EmptyDict
    /\ vm_lifetime = EmptyDict
    /\ counters = EmptyDict
    /\ batched = <<>>
    /\ max_vdc_size = 0
    /\ tick_i = 0
    /\ event_i = 0
    /\ vdc_child_index = EmptyDict
    /\ vdc_uuid_map = EmptyDict
    /\ vdc_alive_vms = EmptyDict
    /\ vm2vdc = EmptyDict
    /\ vm_peers = EmptyDict
    /\ band_per_core = 0
    /\ ml_workload = <<>>
    /\ peer_vms = EmptyGraph
    /\ reached_max = {}
    /\ overflowed = {}
    /\ output = <<>>
    /\ second_run = <<>>
    /\ first_run = <<>>
    /\ server = <<>>

\* --vdc-size is left at its default
InitRest ==
    /\ ARGS = [vdc_size |-> 1]
    /\ InitState

Init ==
    /\ \E a \in [1..MaxVms -> CleanAttrs] : csv = TraceOf(MaxVms, a)
    /\ InitRest

InitNet ==
    /\ \E a \in [1..MaxVms -> NetAttrs] : csv = TraceOf(MaxVms, a)
    /\ InitRest

InitRaw ==
    /\ \E a \in [1..MaxRawVms -> RawAttrs] : csv = TraceOf(MaxRawVms, a)
    /\ InitRest

\* any events of two VMs, cut into two ticks at any place
StreamEvents ==
    {CreateEvent(r) : r \in [vm_uuid : 1..2, vdc_uuid : LogicalVdcs, cores : {CoreUnit}]}
    \cup {DeleteEvent(r) : r \in [vm_uuid : 1..2, vdc_uuid : LogicalVdcs]}

InitStream ==
    /\ \E n \in 0..MaxStreamEvents : \E s \in [1..n -> StreamEvents] : \E k \in 0..n :
          events_sorted = [t \in ModelTicks |->
                             IF t = 0 THEN SubSeq(s, 1, k)
                             ELSE IF t = sec_in_5mins THEN SubSeq(s, k + 1, n)
                             ELSE <<>>]
    /\ csv = <<>>
    /\ ARGS = [vdc_size |-> 1]
    /\ pc = "sanitized"
    /\ err = ""
    /\ sorted_csv = <<>>
    /\ vm_lifetime = EmptyDict
    /\ counters = EmptyDict
    /\ batched = <<>>
    /\ max_vdc_size = 0
    /\ tick_i = 0
    /\ event_i = 0
    /\ vdc_child_index = EmptyDict
    /\ vdc_uuid_map = EmptyDict
    /\ vdc_alive_vms = EmptyDict
    /\ vm2vdc = EmptyDict
    /\ vm_peers = EmptyDict
    /\ band_per_core = 0
    /\ ml_workload = <<>>
    /\ peer_vms = EmptyGraph
    /\ reached_max = {}
    /\ overflowed = {}
    /\ output = <<>>
    /\ second_run = <<>>
    /\ first_run = <<>>
    /\ server = <<>>

Next ==
    \/ SortEvents
    \/ Sanitize
    \/ BatchVdcs
    \/ ChopStart
    \/ ChopEvent
    \/ ChopPeers
    \/ AddNetwork
    \/ CheckVirtualNetwork
    \/ WriteOutput

Spec == Init /\ [][Next]_vars

SpecNet == InitNet /\ [][Next]_vars

SpecRaw == InitRaw /\ [][Next]_vars

\* batch_vdcs and _chop_vdcs on any events
NextStream ==
    \/ BatchVdcs
    \/ ChopStart
    \/ ChopEvent
    \/ ChopPeers

SpecStream == InitStream /\ [][NextStream]_vars

\* the connection maps a CREATE of one of two VMs may carry: none, or the
\* other VM with any bandwidth
CheckConnsOf(vm) ==
    {<<>>} \cup {<<[peer |-> 3 - vm, band |-> b]>> : b \in 0..MaxBandPerCore}

\* any networked events of two VMs
CheckStreamEvents ==
    UNION {{[type |-> VM_CREATE_STR, vdc_uuid |-> "d0", vm_uuid |-> vm,
             cores |-> CoreUnit, net_conns_in_mbps |-> c] : c \in CheckConnsOf(vm)}
           : vm \in 1..2}
    \cup {DeleteEvent(r) : r \in [vm_uuid : 1..2, vdc_uuid : {"d0"}]}

\* VM uuids are unique: a VM has at most one CREATE and at most one DELETE,
\* in any order
UniqueVms(s) ==
    \A i, j \in 1..Len(s) :
       i < j /\ s[i].vm_uuid = s[j].vm_uuid => s[i].type # s[j].type

\* any such events as a workload of one or two ticks; the first tick may be
\* empty
InitCheck ==
    /\ \E n \in 0..MaxCheckEvents : \E s \in [1..n -> CheckStreamEvents] : \E k \in 0..n :
          /\ UniqueVms(s)
          /\ ml_workload =
               <<[tick_str |-> TickStr(0), events |-> SubSeq(s, 1, k)]>>
               \o (IF k < n
                   THEN <<[tick_str |-> TickStr(sec_in_5mins),
                           events |-> SubSeq(s, k + 1, n)]>>
                   ELSE <<>>)
    /\ ARGS = [vdc_size |-> 1]
    /\ pc = "networked"
    /\ err = ""
    /\ csv = <<>>
    /\ sorted_csv = <<>>
    /\ events_sorted = EmptyDict
    /\ vm_lifetime = EmptyDict
    /\ counters = EmptyDict
    /\ batched = <<>>
    /\ max_vdc_size = 0
    /\ tick_i = 0
    /\ event_i = 0
    /\ vdc_child_index = EmptyDict
    /\ vdc_uuid_map = EmptyDict
    /\ vdc_alive_vms = EmptyDict
    /\ vm2vdc = EmptyDict
    /\ vm_peers = EmptyDict
    /\ band_per_core = 0
    /\ peer_vms = EmptyGraph
    /\ reached_max = {}
    /\ overflowed = {}
    /\ output = <<>>
    /\ second_run = <<>>
    /\ first_run = <<>>
    /\ server = <<>>

\* _check_virtual_network on any workload, the output, and a second replay
NextCheck ==
    \/ CheckVirtualNetwork
    \/ CheckAgain
    \/ WriteOutput

SpecCheck == InitCheck /\ [][NextCheck]_vars

\* a run of __main__ with any --vdc-size
InitMain ==
    /\ \E a \in [1..MaxVms -> CleanAttrs] : csv = TraceOf(MaxVms, a)
    /\ InitState
    /\ \E n \in 1..MaxVdcSize : ARGS = [vdc_size |-> n]

NextMain ==
    \/ SortEvents
    \/ Sanitize
    \/ BatchVdcs
    \/ ChopStartML
    \/ ChopEvent
    \/ ChopPeers
    \/ AddNetwork
    \/ CheckVirtualNetwork
    \/ WriteOutput

SpecMain == InitMain /\ [][NextMain]_vars

\* generate_ml up to _add_network is called again, with the rows of the file
\* in any order
RunAgain ==
    /\ pc = "networked"
    /\ first_run = <<>>
    /\ first_run' = <<[ml_workload |-> ml_workload, max_vdc_size |-> max_vdc_size,
                       band_per_core |-> band_per_core]>>
    /\ \E p \in Permutations(1..Len(csv)) : csv' = [i \in 1..Len(csv) |-> csv[p[i]]]
    /\ pc' = "start"
    /\ err' = ""
    /\ sorted_csv' = <<>>
    /\ events_sorted' = EmptyDict
    /\ vm_lifetime' = EmptyDict
    /\ counters' = EmptyDict
    /\ batched' = <<>>
    /\ max_vdc_size' = 0
    /\ tick_i' = 0
    /\ event_i' = 0
    /\ vdc_child_index' = EmptyDict
    /\ vdc_uuid_map' = EmptyDict
    /\ vdc_alive_vms' = EmptyDict
    /\ vm2vdc' = EmptyDict
    /\ vm_peers' = EmptyDict
    /\ band_per_core' = 0
    /\ ml_workload' = <<>>
    /\ reached_max' = {}
    /\ overflowed' = {}
    /\ UNCHANGED <<server, ARGS, output, second_run, peer_vms>>

\* the second run has the parameters of the first
ChopStartPerm ==
    IF first_run = <<>> THEN ChopStart ELSE ChopStartWith(first_run[1].max_vdc_size)

AddNetworkPerm ==
    IF first_run = <<>> THEN AddNetwork ELSE AddNetworkWith(first_run[1].band_per_core)

InitPerm ==
    /\ \E a \in [1..MaxRawVms -> PermAttrs] : csv = TraceOf(MaxRawVms, a)
    /\ InitRest

\* two runs on the same rows
NextPerm ==
    \/ SortEvents
    \/ Sanitize
    \/ BatchVdcs
    \/ ChopStartPerm
    \/ ChopEvent
    \/ ChopPeers
    \/ AddNetworkPerm
    \/ RunAgain

SpecPerm == InitPerm /\ [][NextPerm]_vars

(***************************************************************************)
(* lib/server.py: the Server object.  The cores are whole numbers and the  *)
(* RAM is counted in whole MB.  Next to the fields of the object, the      *)
(* record keeps what the calls so far have raised.                         *)
(***************************************************************************)
MaxServerCores == 2
MaxServerRam == 2
MaxAmount == 2
MaxServerCalls == 3

\* the amounts a caller may pass
Amounts == (0 - MaxAmount)..MaxAmount

\* const.SCHED_SUCCESS is not defined in lib/constants.py: the return
\* statement of the four methods raises
SCHED_SUCCESS_ERROR == "AttributeError: SCHED_SUCCESS"

\* Server.__init__
ServerInit ==
    /\ server = <<>>
    /\ \E cores \in 1..MaxServerCores : \E ram \in 1..MaxServerRam :
          server' = <<[id |-> 0, cores |-> cores, ram |-> ram,
                       _cores_remaining |-> cores, _ram_remaining |-> ram,
                       raised |-> "", asserted |-> FALSE, calls |-> 0]>>
    /\ UNCHANGED <<ARGS, output, second_run, first_run, pc, err, csv, sorted_csv,
                   events_sorted, vm_lifetime, counters, batched, max_vdc_size,
                   tick_i, event_i, vdc_child_index, vdc_uuid_map, vdc_alive_vms,
                   vm2vdc, vm_peers, band_per_core, ml_workload, peer_vms,
                   reached_max, overflowed>>

has_cores_capacity(self, cores) == self._cores_remaining - cores >= 0

has_ram_capacity(self, ram) == self._ram_remaining - ram >= 0

\* a call that stopped on a failed assertion
AssertionFailed(self) ==
    [self EXCEPT !.raised = "AssertionError", !.asserted = TRUE, !.calls = @ + 1]

\* a call that got to its return statement
Returning(self) == [self EXCEPT !.raised = SCHED_SUCCESS_ERROR, !.calls = @ + 1]

allocate_cores(self, cores) ==
    IF ~(cores > 0) THEN AssertionFailed(self)
    ELSE IF ~has_cores_capacity(self, cores) THEN AssertionFailed(self)
    ELSE Returning([self EXCEPT !._cores_remaining = @ - cores])

allocate_ram(self, ram) ==
    IF ~(ram > 0) THEN AssertionFailed(self)
    ELSE IF ~has_ram_capacity(self, ram) THEN AssertionFailed(self)
    ELSE Returning([self EXCEPT !._ram_remaining = @ - ram])

\* the cores are added before the assertion is made
free_cores(self, cores) ==
    LET added == [self EXCEPT !._cores_remaining = @ + cores]
    IN IF ~(added._cores_remaining <= added.cores) THEN AssertionFailed(added)
       ELSE Returning(added)

free_ram(self, ram) ==
    LET added == [self EXCEPT !._ram_remaining = @ + ram]
    IN IF ~(added._ram_remaining <= added.ram) THEN AssertionFailed(added)
       ELSE Returning(added)

\* one call on the Server: the pipeline is left alone
ServerCall(after) ==
    /\ server # <<>>
    /\ server[1].calls < MaxServerCalls
    /\ server' = <<after>>
    /\ UNCHANGED <<ARGS, output, second_run, first_run, pc, err, csv, sorted_csv,
                   events_sorted, vm_lifetime, counters, batched, max_vdc_size,
                   tick_i, event_i, vdc_child_index, vdc_uuid_map, vdc_alive_vms,
                   vm2vdc, vm_peers, band_per_core, ml_workload, peer_vms,
                   reached_max, overflowed>>

AllocateCores == \E cores \in Amounts : ServerCall(allocate_cores(server[1], cores))

AllocateRam == \E ram \in Amounts : ServerCall(allocate_ram(server[1], ram))

FreeCores == \E cores \in Amounts : ServerCall(free_cores(server[1], cores))

FreeRam == \E ram \in Amounts : ServerCall(free_ram(server[1], ram))

\* no trace is read
InitServer ==
    /\ csv = <<>>
    /\ InitRest

NextServer ==
    \/ ServerInit
    \/ AllocateCores
    \/ AllocateRam
    \/ FreeCores
    \/ FreeRam

SpecServer == InitServer /\ [][NextServer]_vars

\* the pipeline on traces with a VDC uuid that holds the separator
InitIds ==
    /\ \E a \in [1..MaxVms -> ClashAttrs] : csv = TraceOf(MaxVms, a)
    /\ InitRest

SpecIds == InitIds /\ [][Next]_vars

(***************************************************************************)
(* Properties.                                                             *)
(***************************************************************************)
\* the first pass of _chop_vdcs is at an event of the given type
AtEvent(type) ==
    /\ pc = "chop"
    /\ event_i <= Len(batched[tick_i].events)
    /\ CurrentEvent.type = type

\* the create events of a workload
CreateEventsOf(workload) ==
    {e \in SeqToSet(AllEvents(workload)) : e.type = VM_CREATE_STR}

\* C1: while _chop_vdcs replays any batched event stream with
\* max_vdc_size >= 1, after every processed event the alive-VM list of every
\* physical VDC, parent or child, holds at most max_vdc_size VMs.
C1_AliveWithinMax ==
    \A v \in DOMAIN vdc_alive_vms : Len(vdc_alive_vms[v]) <= max_vdc_size

\* a parent VDC that is full, next to a child made for the VM that did not fit
C1_Witness ==
    \E v \in LogicalVdcs :
       /\ v \in DOMAIN vdc_child_index
       /\ Len(vdc_alive_vms[v]) = max_vdc_size
       /\ Len(vdc_alive_vms[vdc_uuid_map[v]]) >= 1

\* every connection of the workload has a positive bandwidth
AllBandsPositive ==
    \A e \in CreateEventsOf(ml_workload) :
       \A i \in 1..Len(e.net_conns_in_mbps) : e.net_conns_in_mbps[i].band > 0

\* C2: for a trace with unique VM ids and on-grid timestamps, no stage up to
\* and including _check_virtual_network raises unless the workload holds a
\* bandwidth that is not positive, and when all bandwidths are positive the
\* replay ends with a peer graph of zero nodes and zero edges.
C2_CheckPasses ==
    /\ pc = "abort" => (~AllBandsPositive /\ err = "AssertionError: band > 0")
    /\ (pc \in {"checked", "abort"} /\ AllBandsPositive) =>
          /\ pc = "checked"
          /\ peer_vms.error = ""
          /\ peer_vms.nodes = {}
          /\ DOMAIN peer_vms.edges = {}

\* a checked workload with positive bandwidths in which a VM lists a peer
\* that does not list it back, next to a VM of a child VDC
C2_Witness ==
    /\ pc = "checked"
    /\ band_per_core > 0
    /\ \E a, b \in CreateEventsOf(ml_workload) :
          /\ \E i \in 1..Len(a.net_conns_in_mbps) : a.net_conns_in_mbps[i].peer = b.vm_uuid
          /\ \A i \in 1..Len(b.net_conns_in_mbps) : b.net_conns_in_mbps[i].peer # a.vm_uuid
    /\ \E a \in CreateEventsOf(ml_workload) : a.vdc_uuid \notin LogicalVdcs

\* C3: in the workload produced by _add_network, whenever VM A's connection
\* map has an entry for B and VM B's connection map has an entry for A, the
\* two bandwidth values are equal.
C3_BandwidthSymmetric ==
    \A a, b \in CreateEventsOf(ml_workload) :
       \A i \in 1..Len(a.net_conns_in_mbps) :
          \A j \in 1..Len(b.net_conns_in_mbps) :
             (a.net_conns_in_mbps[i].peer = b.vm_uuid
                /\ b.net_conns_in_mbps[j].peer = a.vm_uuid)
             => a.net_conns_in_mbps[i].band = b.net_conns_in_mbps[j].band

\* two VMs of different core counts that list each other, at a bandwidth
\* that is not zero
C3_Witness ==
    \E a, b \in CreateEventsOf(ml_workload) :
       /\ a.cores # b.cores
       /\ \E i \in 1..Len(a.net_conns_in_mbps) :
             /\ a.net_conns_in_mbps[i].peer = b.vm_uuid
             /\ a.net_conns_in_mbps[i].band > 0
       /\ \E j \in 1..Len(b.net_conns_in_mbps) :
             b.net_conns_in_mbps[j].peer = a.vm_uuid

\* the VMs of a physical VDC that the trace has alive in a tick: created in
\* it or before it, and deleted after it
AliveInTick(vdc, tick) ==
    {u \in DOMAIN vm2vdc :
       /\ vm2vdc[u] = vdc
       /\ vm_lifetime[u].create_tick <= tick
       /\ tick < vm_lifetime[u].delete_tick}

\* C4: for every VM, the peer list returned by _chop_vdcs holds the alive
\* members of the VM's physical VDC at the VM's creation time (its creation
\* tick, once the events of that tick are applied) with the VM itself
\* removed: it never contains the VM itself and its size is that alive count
\* minus 1.
C4_PeersAreAliveMembers ==
    \A vm \in DOMAIN vm_peers :
       LET members == AliveInTick(vm2vdc[vm], vm_lifetime[vm].create_tick)
       IN /\ SeqToSet(vm_peers[vm]) = members \ {vm}
          /\ vm \notin SeqToSet(vm_peers[vm])
          /\ Len(vm_peers[vm]) = Cardinality(members) - 1

\* a VM with a peer, made in the tick in which a VM of its VDC was deleted
C4_Witness ==
    \E vm \in DOMAIN vm_peers : \E u \in DOMAIN vm2vdc :
       /\ vm2vdc[u] = vm2vdc[vm]
       /\ vm_lifetime[u].delete_tick = vm_lifetime[vm].create_tick
       /\ vm_peers[vm] # <<>>

\* the list without the VM
Without(alive, vm) == SelectSeq(alive, LAMBDA x : x # vm)

\* C5: every VM is assigned to exactly one physical VDC when its CREATE
\* event is processed; vm2vdc[vm] is never changed afterwards, and the VM's
\* DELETE event removes it from the alive list of that same physical VDC.
C5_OneVdcPerVm ==
    [][/\ \A vm \in DOMAIN vm2vdc :
             vm \in DOMAIN vm2vdc' /\ vm2vdc'[vm] = vm2vdc[vm]
       /\ AtEvent(VM_CREATE_STR) =>
             LET vm == CurrentEvent.vm_uuid
             IN /\ vm \notin DOMAIN vm2vdc
                /\ DOMAIN vm2vdc' = DOMAIN vm2vdc \cup {vm}
                /\ {v \in DOMAIN vdc_alive_vms' : vm \in SeqToSet(vdc_alive_vms'[v])}
                      = {vm2vdc'[vm]}
       /\ AtEvent(VM_DELETE_STR) =>
             LET vm == CurrentEvent.vm_uuid
             IN /\ vm \in DOMAIN vm2vdc
                /\ pc' = "chop"
                /\ vm \in SeqToSet(vdc_alive_vms[vm2vdc[vm]])
                /\ vdc_alive_vms' =
                      [vdc_alive_vms EXCEPT ![vm2vdc[vm]] = Without(@, vm)]
      ]_vars

\* a VM has been deleted from a physical VDC that has VMs left, while the VMs
\* of the trace are spread over several physical VDCs
C5_Witness ==
    \E vm \in DOMAIN vm2vdc :
       /\ vm \notin SeqToSet(vdc_alive_vms[vm2vdc[vm]])
       /\ Len(vdc_alive_vms[vm2vdc[vm]]) >= 1
       /\ \E u \in DOMAIN vm2vdc : u # vm /\ vm2vdc[u] # vm2vdc[vm]

TicksHolding(type, vm) ==
    {t \in DOMAIN events_sorted :
       \E j \in 1..Len(events_sorted[t]) :
          events_sorted[t][j].type = type /\ events_sorted[t][j].vm_uuid = vm}

\* C7: for every VM that survives sanitize, the tick holding its CREATE event
\* is strictly smaller than the tick holding its DELETE event, and both ticks
\* are multiples of 300 seconds.
C7_CreateTickBeforeDeleteTick ==
    \A vm \in DOMAIN vm_lifetime :
       /\ TicksHolding(VM_CREATE_STR, vm) = {vm_lifetime[vm].create_tick}
       /\ TicksHolding(VM_DELETE_STR, vm) = {vm_lifetime[vm].delete_tick}
       /\ vm_lifetime[vm].create_tick < vm_lifetime[vm].delete_tick
       /\ vm_lifetime[vm].create_tick % 300 = 0
       /\ vm_lifetime[vm].delete_tick % 300 = 0

\* sanitize has kept a VM whose creation time it had to correct and a VM
\* whose deletion time it had to correct
C7_Witness ==
    /\ pc = "sanitized"
    /\ \E i \in 1..Len(csv) :
          /\ csv[i].vm_uuid \in DOMAIN vm_lifetime
          /\ csv[i].create_time \in INVALID_TIMESTAMPS
    /\ \E i \in 1..Len(csv) :
          /\ csv[i].vm_uuid \in DOMAIN vm_lifetime
          /\ csv[i].delete_time \in INVALID_TIMESTAMPS

\* C8: in the batched event stream processed tick by tick, every DELETE event
\* of a VM is processed strictly after the CREATE event of the same VM, so
\* that for a stream produced by sanitize and batch_vdcs the lookup of the
\* VM's physical VDC on DELETE always succeeds.
C8_DeleteAfterCreate ==
    /\ LET e == AllEvents(batched)
       IN \A k \in 1..Len(e) :
             e[k].type = VM_DELETE_STR =>
                \E j \in 1..(k - 1) :
                   e[j].type = VM_CREATE_STR /\ e[j].vm_uuid = e[k].vm_uuid
    /\ AtEvent(VM_DELETE_STR) =>
          /\ CurrentEvent.vm_uuid \in DOMAIN vm2vdc
          /\ vm2vdc[CurrentEvent.vm_uuid] \in DOMAIN vdc_alive_vms
    /\ err \notin {"KeyError: vm2vdc", "AssertionError: vdc_alive_vms",
                   "ValueError: list.remove"}

\* the replay is over, every VM is deleted, and the lifetime of one of them
\* is not what its raw timestamps say
C8_Witness ==
    /\ pc = "chopped"
    /\ DOMAIN vm2vdc # {}
    /\ \A v \in DOMAIN vdc_alive_vms : vdc_alive_vms[v] = <<>>
    /\ \E i \in 1..Len(csv) :
          /\ csv[i].vm_uuid \in DOMAIN vm2vdc
          /\ vm_lifetime[csv[i].vm_uuid].lifetime
                # csv[i].delete_time - csv[i].create_time

\* the child VDCs a parent VDC has so far
ChildrenOf(parent) ==
    {c \in DOMAIN vdc_alive_vms :
       \E k \in 0..Len(AllEvents(batched)) :
          c = parent \o "__" \o ToString(k)}

\* C9: when a CREATE arrives for a logical VDC whose current physical VDC
\* already holds max_vdc_size alive VMs, a new child physical VDC is minted
\* with id parent + "__" + k, where k is 0 for the parent's first child and
\* grows by exactly 1 for each later child of that parent; the child becomes
\* the logical VDC's current pointer and its alive list is exactly the
\* creating VM.
C9_ChildMinted ==
    [][(/\ AtEvent(VM_CREATE_STR)
        /\ CurrentEvent.vdc_uuid \in DOMAIN vdc_uuid_map
        /\ Len(vdc_alive_vms[vdc_uuid_map[CurrentEvent.vdc_uuid]]) >= max_vdc_size)
       => LET parent == CurrentEvent.vdc_uuid
              child == parent \o "__" \o ToString(Cardinality(ChildrenOf(parent)))
          IN /\ child \notin DOMAIN vdc_alive_vms
             /\ vdc_uuid_map' = [vdc_uuid_map EXCEPT ![parent] = child]
             /\ DOMAIN vdc_alive_vms' = DOMAIN vdc_alive_vms \cup {child}
             /\ vdc_alive_vms'[child] = <<CurrentEvent.vm_uuid>>
             /\ \A v \in DOMAIN vdc_alive_vms : vdc_alive_vms'[v] = vdc_alive_vms[v]
             /\ vm2vdc'[CurrentEvent.vm_uuid] = child
      ]_vars

\* a parent VDC has its second child, and a VM lives in each of the three
C9_Witness ==
    /\ "d0__1" \in DOMAIN vdc_alive_vms
    /\ vdc_uuid_map["d0"] = "d0__1"
    /\ \A v \in {"d0", "d0__0", "d0__1"} : Len(vdc_alive_vms[v]) = 1

\* C10, as stated: once the alive count of a physical VDC has reached
\* max_vdc_size, no later CREATE event is ever assigned to that physical VDC,
\* even after DELETE events have lowered its alive count below the maximum.
C10_NeverReopenedOnceFull ==
    [][AtEvent(VM_CREATE_STR) => vm2vdc'[CurrentEvent.vm_uuid] \notin reached_max]_vars

\* C10, amended: once a CREATE event of a logical VDC has found its current
\* physical VDC holding max_vdc_size alive VMs and a child VDC has been made
\* instead, no later CREATE event of that logical VDC is ever assigned to
\* that physical VDC, even after DELETE events have lowered its alive count
\* below the maximum.
C10_NeverReopenedOnceOverflowed ==
    [][AtEvent(VM_CREATE_STR) =>
          <<CurrentEvent.vdc_uuid, vm2vdc'[CurrentEvent.vm_uuid]>> \notin overflowed
      ]_vars

\* a VM has gone to a child VDC while the parent VDC, which had overflowed
\* before, had room again
C10_Witness ==
    \E o \in overflowed : \E vm, u \in DOMAIN vm2vdc :
       /\ Len(vdc_alive_vms[o[2]]) < max_vdc_size
       /\ vm2vdc[u] = o[2]
       /\ vm2vdc[vm] = vdc_uuid_map[o[1]]
       /\ vm2vdc[vm] # o[2]
       /\ vm_lifetime[u].delete_tick <= vm_lifetime[vm].create_tick
       /\ vm \in SeqToSet(vdc_alive_vms[vm2vdc[vm]])

\* the physical VDCs of a logical VDC that lie behind its newest child: the
\* parent and the children of a lower index
BehindNewestChild(parent) ==
    IF ChildrenOf(parent) = {} THEN {}
    ELSE {parent} \cup {parent \o "__" \o ToString(j) :
                          j \in 0..(Cardinality(ChildrenOf(parent)) - 2)}

\* C11: the current physical-VDC pointer of a logical VDC only moves forward:
\* after a child with index k has been minted for a logical VDC, no later
\* CREATE of that logical VDC is assigned to the parent or to a child with
\* index lower than k, even when those earlier physical VDCs have become
\* empty.
C11_PointerMovesForward ==
    [][AtEvent(VM_CREATE_STR) =>
          /\ vm2vdc'[CurrentEvent.vm_uuid] \notin BehindNewestChild(CurrentEvent.vdc_uuid)
          /\ \A v \in DOMAIN vdc_uuid_map :
                vdc_uuid_map'[v] # vdc_uuid_map[v] =>
                   /\ v = CurrentEvent.vdc_uuid
                   /\ vdc_uuid_map'[v] \notin DOMAIN vdc_alive_vms
      ]_vars

\* a VM has been made in the newest child of a logical VDC after an earlier
\* physical VDC of that logical VDC had become empty
C11_Witness ==
    \E v \in LogicalVdcs : \E vm, u \in DOMAIN vm2vdc :
       /\ vm2vdc[u] \in BehindNewestChild(v)
       /\ vdc_alive_vms[vm2vdc[u]] = <<>>
       /\ vm_lifetime[u].delete_tick <= vm_lifetime[vm].create_tick
       /\ vm2vdc[vm] = vdc_uuid_map[v]
       /\ vm2vdc[vm] \notin BehindNewestChild(v)

\* the place of the create event of a VM in the batched stream
CreateIndex(vm) ==
    CHOOSE i \in 1..Len(AllEvents(batched)) :
       /\ AllEvents(batched)[i].type = VM_CREATE_STR
       /\ AllEvents(batched)[i].vm_uuid = vm

\* VM a is alive in the physical VDC that VM b is assigned to when the
\* create event of b is processed
AliveAtCreateOf(a, b) ==
    /\ a # b
    /\ vm2vdc[a] = vm2vdc[b]
    /\ vm_lifetime[a].delete_tick > vm_lifetime[b].create_tick

\* C12, as stated: a VM's peer list is fixed by its own CREATE event: if VM
\* B's CREATE is processed after VM A's CREATE and both are assigned to the
\* same physical VDC while A is alive, then B's peer list contains A and A's
\* peer list does not contain B.
C12_LaterCreateListsEarlier ==
    \A a, b \in DOMAIN vm_peers :
       (CreateIndex(a) < CreateIndex(b) /\ AliveAtCreateOf(a, b)) =>
          /\ a \in SeqToSet(vm_peers[b])
          /\ b \notin SeqToSet(vm_peers[a])

\* C12, amended: if VM B's CREATE lies in a later tick than VM A's CREATE and
\* both are assigned to the same physical VDC while A is alive, then B's peer
\* list contains A and A's peer list does not contain B, neither when B is
\* made nor at any later point of the replay.
C12_LaterTickListsEarlier ==
    \A a, b \in DOMAIN vm_peers :
       (vm_lifetime[a].create_tick < vm_lifetime[b].create_tick
          /\ AliveAtCreateOf(a, b)) =>
          /\ a \in SeqToSet(vm_peers[b])
          /\ b \notin SeqToSet(vm_peers[a])

\* VM b has joined the physical VDC of VM a a tick after a, the replay has
\* gone on, and a is a peer of b
C12_Witness ==
    \E a, b \in DOMAIN vm_peers :
       /\ vm_lifetime[a].create_tick < vm_lifetime[b].create_tick
       /\ AliveAtCreateOf(a, b)
       /\ a \in SeqToSet(vm_peers[b])
       /\ pc = "chopped"

\* the create event of VM b has an entry for VM a at bandwidth w
HasEntry(b, a, w) ==
    \E i \in 1..Len(b.net_conns_in_mbps) :
       /\ b.net_conns_in_mbps[i].peer = a.vm_uuid
       /\ b.net_conns_in_mbps[i].band = w

CsvCores(vm) ==
    (CHOOSE row \in SeqToSet(csv) : row.vm_uuid = vm).cores

\* w is x / CoreUnit cut to an integer
IsTruncationOf(w, x) == w * CoreUnit <= x /\ x < (w + 1) * CoreUnit

\* C14: for every CREATE event written by _add_network, the key set of its
\* connection map is exactly the VM's peer list, and the value for each peer
\* is band_per_core multiplied by the minimum of the VM's cores and the peer's
\* cores, truncated to an integer.
C14_ConnectionMap ==
    \A e \in CreateEventsOf(ml_workload) :
       LET conn == e.net_conns_in_mbps
       IN /\ {conn[i].peer : i \in 1..Len(conn)} = SeqToSet(vm_peers[e.vm_uuid])
          /\ Cardinality({conn[i].peer : i \in 1..Len(conn)}) = Len(conn)
          /\ \A i \in 1..Len(conn) :
                LET own == CsvCores(e.vm_uuid)
                    other == CsvCores(conn[i].peer)
                IN \E least \in {own, other} :
                      /\ least <= own /\ least <= other
                      /\ IsTruncationOf(conn[i].band, band_per_core * least)

\* an entry between VMs of different core counts whose bandwidth has lost a
\* fraction to the truncation
C14_Witness ==
    \E e \in CreateEventsOf(ml_workload) :
       \E i \in 1..Len(e.net_conns_in_mbps) :
          /\ CsvCores(e.vm_uuid) > CsvCores(e.net_conns_in_mbps[i].peer)
          /\ e.net_conns_in_mbps[i].band * CoreUnit
                < band_per_core * CsvCores(e.net_conns_in_mbps[i].peer)

\* C15: two VMs that _chop_vdcs assigns to different physical VDCs
\* (including a parent and its child of the same logical VDC) never appear in
\* each other's peer list; every peer of a VM is assigned to the VM's own
\* physical VDC.
C15_PeersShareThePhysicalVdc ==
    /\ \A vm \in DOMAIN vm_peers :
          \A p \in SeqToSet(vm_peers[vm]) :
             p \in DOMAIN vm2vdc /\ vm2vdc[p] = vm2vdc[vm]
    /\ \A a, b \in DOMAIN vm_peers :
          vm2vdc[a] # vm2vdc[b] =>
             a \notin SeqToSet(vm_peers[b]) /\ b \notin SeqToSet(vm_peers[a])

\* a VM of a child VDC made while two VMs of the parent VDC are alive: they
\* are peers of each other, and the VM of the child has no peer
C15_Witness ==
    \E a, b, c \in DOMAIN vm_peers :
       /\ a # b
       /\ vm2vdc[a] \in LogicalVdcs
       /\ vm2vdc[b] = vm2vdc[a]
       /\ vm2vdc[c] = vm2vdc[a] \o "__0"
       /\ vm_peers[a] = <<b>>
       /\ vm_peers[c] = <<>>
       /\ vm_lifetime[a].delete_tick > vm_lifetime[c].create_tick
       /\ vm_lifetime[b].delete_tick > vm_lifetime[c].create_tick

\* the rows of the trace whose creation time equals their deletion time
InstaRows == {i \in 1..Len(csv) : csv[i].create_time = csv[i].delete_time}

\* C16: a trace row whose creation time equals its deletion time is dropped
\* by sanitize: no CREATE and no DELETE event for that VM appears in any tick
\* of the result, and the insta-VM counter grows by 1.
C16_InstaVmDropped ==
    pc \notin {"start", "sorted", "abort"} =>
       /\ counters.num_of_insta_vms = Cardinality(InstaRows)
       /\ counters.vm_creates_total - counters.vm_creates_in = Cardinality(InstaRows)
       /\ \A i \in InstaRows :
             /\ TicksHolding(VM_CREATE_STR, csv[i].vm_uuid) = {}
             /\ TicksHolding(VM_DELETE_STR, csv[i].vm_uuid) = {}
             /\ csv[i].vm_uuid \notin DOMAIN vm_lifetime

\* sanitize has dropped an insta-VM of a tick in which it has kept the
\* create event of another VM
C16_Witness ==
    /\ pc = "sanitized"
    /\ \E i \in InstaRows : \E j \in 1..Len(csv) :
          /\ csv[j].vm_uuid \in DOMAIN vm_lifetime
          /\ vm_lifetime[csv[j].vm_uuid].create_tick = csv[i].create_time
          /\ counters.num_of_insta_vms = 1

\* the rows of the trace that sanitize has kept
SurvivingRows == {i \in 1..Len(csv) : csv[i].vm_uuid \in DOMAIN vm_lifetime}

\* what the claim says sanitize makes of a timestamp
Corrected(t) == IF t \in INVALID_TIMESTAMPS THEN t - 100 ELSE t

\* C17: for every surviving row, sanitize corrects creation time and deletion
\* time independently: a timestamp that is a member of the invalid set is
\* reduced by exactly 100 seconds and counted once in the matching correction
\* counter, and any other timestamp is passed through unchanged and not
\* counted.
C17_TimesCorrectedIndependently ==
    pc \notin {"start", "sorted", "abort"} =>
       /\ \A i \in SurvivingRows :
             /\ vm_lifetime[csv[i].vm_uuid].create_tick = Corrected(csv[i].create_time)
             /\ vm_lifetime[csv[i].vm_uuid].delete_tick = Corrected(csv[i].delete_time)
       /\ counters.invalid_creates =
             Cardinality({i \in SurvivingRows : csv[i].create_time \in INVALID_TIMESTAMPS})
       /\ counters.invalid_deletes =
             Cardinality({i \in SurvivingRows : csv[i].delete_time \in INVALID_TIMESTAMPS})

\* sanitize has kept a row of which it corrected the creation time only and
\* a row of which it corrected the deletion time only
C17_Witness ==
    /\ pc = "sanitized"
    /\ counters.invalid_creates = 1
    /\ counters.invalid_deletes = 1
    /\ \E i, j \in SurvivingRows :
          /\ csv[i].create_time \in INVALID_TIMESTAMPS
          /\ csv[i].delete_time \notin INVALID_TIMESTAMPS
          /\ csv[j].create_time \notin INVALID_TIMESTAMPS
          /\ csv[j].delete_time \in INVALID_TIMESTAMPS

\* C18: iterating the result of sort_events forward yields non-decreasing
\* creation ticks for any order of the input rows, so the internal
\* monotonicity self-check never fails on the sorted structure.
C18_SortedByCreateTime ==
    pc # "start" =>
       /\ err # "AssertionError: sort_events"
       /\ Len(sorted_csv) = Len(csv)
       /\ SeqToSet(sorted_csv) = SeqToSet(csv)
       /\ \A i, j \in 1..Len(sorted_csv) :
             i < j => sorted_csv[i].create_time <= sorted_csv[j].create_time

\* the rows of the file came with the latest creation time first and the
\* earliest last, and are sorted
C18_Witness ==
    /\ pc = "sorted"
    /\ csv[1].create_time > csv[Len(csv)].create_time
    /\ sorted_csv[1].create_time < sorted_csv[Len(csv)].create_time

\* the place of a row in the file
FilePosition(row) == CHOOSE i \in 1..Len(csv) : csv[i] = row

\* C19: in sort_events the VM id part of the (creation-tick, VM-id) key only
\* makes keys unique and does not act as an ordering key: the relative order
\* of rows with equal creation ticks is not determined by their VM ids, so
\* that the sort, which is stable, leaves such rows in the order of the file.
C19_TiesKeepFileOrder ==
    pc \notin {"start", "abort"} =>
       \A i, j \in 1..Len(sorted_csv) :
          (i < j /\ sorted_csv[i].create_time = sorted_csv[j].create_time) =>
             FilePosition(sorted_csv[i]) < FilePosition(sorted_csv[j])

\* C20: if _chop_vdcs meets a DELETE event for a VM whose CREATE event has
\* not been processed, it aborts with an error and returns no membership or
\* peer mapping; it never skips the event or continues.
C20_UnknownDeleteAborts ==
    [][/\ (AtEvent(VM_DELETE_STR) /\ CurrentEvent.vm_uuid \notin DOMAIN vm2vdc) =>
             /\ pc' = "abort"
             /\ err' = "KeyError: vm2vdc"
             /\ UNCHANGED <<vm2vdc, vdc_alive_vms, vdc_uuid_map, vm_peers>>
       /\ pc = "abort" => pc' = "abort"
       /\ pc' = "chopped" =>
             \A k \in 1..Len(AllEvents(batched)) :
                AllEvents(batched)[k].type = VM_DELETE_STR =>
                   \E j \in 1..(k - 1) :
                      /\ AllEvents(batched)[j].type = VM_CREATE_STR
                      /\ AllEvents(batched)[j].vm_uuid = AllEvents(batched)[k].vm_uuid
      ]_vars

\* the replay has ended on the delete event of a VM that is not known, after
\* it had processed the create event of another VM
C20_Witness ==
    /\ pc = "abort"
    /\ err = "KeyError: vm2vdc"
    /\ DOMAIN vm2vdc # {}
    /\ batched[tick_i].events[event_i - 1].type = VM_DELETE_STR
    /\ batched[tick_i].events[event_i - 1].vm_uuid \notin DOMAIN vm2vdc

\* the bandwidth the CREATE event e names for the VM, if it names one
BandsFor(e, vm) ==
    {e.net_conns_in_mbps[k].band :
       k \in {x \in 1..Len(e.net_conns_in_mbps) : e.net_conns_in_mbps[x].peer = vm}}

\* the events i < j of the workload are the CREATE events of two VMs that
\* name each other with different bandwidths, and neither VM is deleted in
\* between
ListEachOtherDifferently(events, i, j) ==
    /\ i < j
    /\ events[i].type = VM_CREATE_STR
    /\ events[j].type = VM_CREATE_STR
    /\ events[i].vm_uuid # events[j].vm_uuid
    /\ \E x \in BandsFor(events[i], events[j].vm_uuid) :
         \E y \in BandsFor(events[j], events[i].vm_uuid) : x # y
    /\ \A k \in (i + 1)..(j - 1) :
         ~(/\ events[k].type = VM_DELETE_STR
           /\ events[k].vm_uuid \in {events[i].vm_uuid, events[j].vm_uuid})

\* the replay is over
CheckIsOver == pc \in {"checked", "abort", "written"}

\* C21: in a workload of VMs with unique uuids, if the CREATE events of two
\* VMs that are both alive name each other as peers with different bandwidth
\* values, _check_virtual_network fails on an assertion: it does not return
\* True, and nothing is written.
C21_AsymmetricBandsFail ==
    LET events == AllEvents(ml_workload)
    IN (/\ CheckIsOver
        /\ \E i, j \in 1..Len(events) : ListEachOtherDifferently(events, i, j))
       => /\ pc = "abort"
          /\ peer_vms.error \in {"AssertionError: band > 0",
                                 "AssertionError: weight == band",
                                 "AssertionError: empty tick"}
          /\ err = peer_vms.error
          /\ output = <<>>

\* two positive bandwidths that differ, met at the second CREATE
C21_Witness ==
    LET events == AllEvents(ml_workload)
    IN /\ pc = "abort"
       /\ peer_vms.error = "AssertionError: weight == band"
       /\ \E i, j \in 1..Len(events) :
            /\ ListEachOtherDifferently(events, i, j)
            /\ peer_vms.failed_at = j

\* C22: the output is written only after _check_virtual_network has replayed
\* the whole workload and has passed, and it is then the workload generate_ml
\* returned; when the check fails, or a stage before it, no tick record is
\* written.
C22_WrittenOnlyAfterCheck ==
    /\ (pc = "written" \/ output # <<>>)
          => /\ peer_vms = CheckVirtualNetworkOf(ml_workload)
             /\ peer_vms.error = ""
             /\ err = ""
             /\ output = ml_workload
    /\ pc # "written" => output = <<>>

\* a written workload of two ticks or more in which a VM has a peer
C22_Witness ==
    /\ pc = "written"
    /\ Len(output) >= 2
    /\ \E e \in CreateEventsOf(output) : e.net_conns_in_mbps # <<>>

\* C23 is about the step of _add_network: the batched events before it and
\* the workload after it.
AddNetworkStep == pc = "chopped" /\ pc' = "networked"

\* C23: the workload _add_network returns has the ticks of the batched list
\* in the same order and, inside each tick, the events of the same VMs and
\* types in the same order; the VDC field of every event, CREATE and DELETE,
\* is the physical VDC of its VM; a DELETE event has no other field than
\* type, VDC and VM (no bandwidth map).
C23_AddNetworkFrame ==
    [][AddNetworkStep =>
         /\ Len(ml_workload') = Len(batched)
         /\ \A i \in 1..Len(batched) :
              /\ ml_workload'[i].tick_str = TickStr(batched[i].tick)
              /\ Len(ml_workload'[i].events) = Len(batched[i].events)
              /\ \A j \in 1..Len(batched[i].events) :
                   LET old == batched[i].events[j]
                       new == ml_workload'[i].events[j]
                   IN /\ new.type = old.type
                      /\ new.vm_uuid = old.vm_uuid
                      /\ new.vdc_uuid = vm2vdc[old.vm_uuid]
                      /\ old.type = VM_DELETE_STR
                           => DOMAIN new = {"type", "vdc_uuid", "vm_uuid"}
                      /\ old.type = VM_CREATE_STR
                           => /\ new.cores = old.cores
                              /\ "net_conns_in_mbps" \in DOMAIN new]_vars

\* a networked workload with the DELETE event of a VM of a child VDC, which
\* sanitize made with the logical VDC
C23_Witness ==
    /\ pc = "networked"
    /\ \E i \in 1..Len(ml_workload) : \E j \in 1..Len(ml_workload[i].events) :
         LET e == ml_workload[i].events[j]
         IN /\ e.type = VM_DELETE_STR
            /\ e.vdc_uuid \notin LogicalVdcs
            /\ e.vdc_uuid = vm2vdc[e.vm_uuid]
            /\ j < Len(ml_workload[i].events)

\* C24: while and after _chop_vdcs runs, the maximum it enforces is the
\* value given with --vdc-size: max_vdc_size is that value, and no physical
\* VDC holds more alive VMs than it.
C24_VdcSizeOptionEnforced ==
    pc \notin {"start", "sorted", "sanitized", "batched", "abort"}
       => /\ max_vdc_size = ARGS.vdc_size
          /\ \A v \in DOMAIN vdc_alive_vms : Len(vdc_alive_vms[v]) <= ARGS.vdc_size

EventsIn(tick, type, vm) ==
    Cardinality({j \in 1..Len(events_sorted[tick]) :
                   /\ events_sorted[tick][j].type = type
                   /\ events_sorted[tick][j].vm_uuid = vm})

\* C26: when sanitize completes, every row that is not an insta-VM has
\* exactly one CREATE event, in the tick equal to its corrected creation
\* time, and exactly one DELETE event, in the tick equal to its corrected
\* deletion time, and none in any other tick; the number of CREATE events of
\* the result is the number of input rows minus the number of insta-VMs.
C26_OneCreateOneDelete ==
    pc \notin {"start", "sorted", "abort"} =>
       /\ \A i \in (1..Len(csv)) \ InstaRows :
             \A t \in DOMAIN events_sorted :
                /\ EventsIn(t, VM_CREATE_STR, csv[i].vm_uuid)
                      = IF t = Corrected(csv[i].create_time) THEN 1 ELSE 0
                /\ EventsIn(t, VM_DELETE_STR, csv[i].vm_uuid)
                      = IF t = Corrected(csv[i].delete_time) THEN 1 ELSE 0
       /\ \A i \in (1..Len(csv)) \ InstaRows :
             /\ Corrected(csv[i].create_time) \in DOMAIN events_sorted
             /\ Corrected(csv[i].delete_time) \in DOMAIN events_sorted
       /\ NumCreateEvents(events_sorted) = Len(csv) - Cardinality(InstaRows)

\* sanitize has kept two rows, and the tick in which the one VM is deleted
\* is, after correction, the tick in which the other is created
C26_Witness ==
    /\ pc = "sanitized"
    /\ InstaRows = {}
    /\ \E i, j \in 1..Len(csv) :
          /\ i # j
          /\ csv[i].delete_time # csv[j].create_time
          /\ Corrected(csv[i].delete_time) = Corrected(csv[j].create_time)
          /\ EventsIn(Corrected(csv[j].create_time), VM_CREATE_STR, csv[j].vm_uuid) = 1
          /\ EventsIn(Corrected(csv[j].create_time), VM_DELETE_STR, csv[i].vm_uuid) = 1

\* a row whose raw times differ while the corrected creation time is not
\* before the corrected deletion time
CollapsedRow(row) ==
    /\ row.create_time # row.delete_time
    /\ ~(Corrected(row.create_time) < Corrected(row.delete_time))

\* a row sanitize stops at for another reason: a tick that is not on the
\* grid, or raw times in the wrong order
OffGridRow(row) ==
    /\ row.create_time # row.delete_time
    /\ ~CollapsedRow(row)
    /\ \/ row.create_time > row.delete_time
       \/ ~IsGridTick(Corrected(row.create_time))
       \/ ~IsGridTick(Corrected(row.delete_time))

\* C27: if the trace has a row whose raw creation and deletion times differ
\* but whose corrected creation time is not strictly less than its corrected
\* deletion time, sanitize does not complete: it returns no events and no
\* lifetimes, for this row or any other, the row is not counted as an
\* insta-VM, and unless a row sorted before the first such row stops it for
\* a tick off the grid, it ends on a failed assertion of that row.
C27_CollapsedRowAborts ==
    LET collapsed == {k \in 1..Len(sorted_csv) : CollapsedRow(sorted_csv[k])}
    IN (pc \notin {"start", "sorted"} /\ collapsed # {})
       => /\ pc = "abort"
          /\ events_sorted = EmptyDict
          /\ vm_lifetime = EmptyDict
          /\ batched = <<>>
          /\ counters.num_of_insta_vms
                <= Cardinality({k \in 1..Len(sorted_csv) : IsInstaVm(sorted_csv[k])})
          /\ (\A k \in collapsed : \E j \in 1..Len(sorted_csv) :
                 j < k /\ (CollapsedRow(sorted_csv[j]) \/ OffGridRow(sorted_csv[j])))
             \/ (\E k \in collapsed :
                   /\ \A j \in 1..(k - 1) :
                         ~CollapsedRow(sorted_csv[j]) /\ ~OffGridRow(sorted_csv[j])
                   /\ err = IF sorted_csv[k].create_time < sorted_csv[k].delete_time
                            THEN "AssertionError: lifetime > 0"
                            ELSE "AssertionError: create_time < delete_time")

\* sanitize has stopped at a row that was created before it was deleted and
\* whose two times are one tick after the correction
C27_Witness ==
    /\ pc = "abort"
    /\ err = "AssertionError: lifetime > 0"
    /\ \E k \in 1..Len(sorted_csv) :
          /\ sorted_csv[k].create_time < sorted_csv[k].delete_time
          /\ Corrected(sorted_csv[k].create_time) = Corrected(sorted_csv[k].delete_time)

\* C28: for every timestamp t of the list of invalid timestamps, the time
\* sanitize makes of it is t - 100, which is a multiple of 300, lies in the
\* grid events_sorted is filled up with (0 <= t - 100 < 12 * 24 * 30 * 300)
\* and is not in the list itself, so that a second correction would leave it
\* as it is; it is the tick sanitize records for a kept row with that time.
C28_CorrectionLandsOnGrid ==
    \A t \in INVALID_TIMESTAMPS :
       LET c == ValidateEventTime(t)
       IN /\ c[2]
          /\ c[1] = t - 100
          /\ c[1] % 300 = 0
          /\ 0 <= c[1]
          /\ c[1] < 12 * 24 * 30 * 300
          /\ IsGridTick(c[1])
          /\ c[1] \notin INVALID_TIMESTAMPS
          /\ ValidateEventTime(c[1]) = <<c[1], FALSE>>
          /\ \A i \in SurvivingRows :
                /\ csv[i].create_time = t
                      => vm_lifetime[csv[i].vm_uuid].create_tick = c[1]
                /\ csv[i].delete_time = t
                      => vm_lifetime[csv[i].vm_uuid].delete_tick = c[1]

\* sanitize has kept a row with two different invalid timestamps, each
\* corrected once into a tick of the grid
C28_Witness ==
    /\ pc = "sanitized"
    /\ \E i \in 1..Len(csv) :
          /\ csv[i].create_time \in INVALID_TIMESTAMPS
          /\ csv[i].delete_time \in INVALID_TIMESTAMPS
          /\ csv[i].vm_uuid \in DOMAIN vm_lifetime
          /\ vm_lifetime[csv[i].vm_uuid].create_tick = csv[i].create_time - 100
          /\ vm_lifetime[csv[i].vm_uuid].delete_tick = csv[i].delete_time - 100
          /\ events_sorted[csv[i].create_time - 100] # <<>>
          /\ events_sorted[csv[i].delete_time - 100] # <<>>

\* C29: when _check_virtual_network has returned True, every CREATE event of
\* the workload is followed, later in the workload, by a DELETE event of the
\* same VM.
C29_PassedMeansAllDeleted ==
    LET events == AllEvents(ml_workload)
    IN pc \in {"checked", "written"}
       => \A i \in 1..Len(events) :
             events[i].type = VM_CREATE_STR
                => \E j \in (i + 1)..Len(events) :
                      /\ events[j].type = VM_DELETE_STR
                      /\ events[j].vm_uuid = events[i].vm_uuid

\* how often the event is in the list
Occurrences(events, e) == Cardinality({j \in 1..Len(events) : events[j] = e})

\* no two events of a tick of events_sorted have the VDC uuid and the VM
\* uuid in common
UniqueKeysInTicks ==
    \A t \in DOMAIN events_sorted :
       \A i, j \in 1..Len(events_sorted[t]) :
          (/\ events_sorted[t][i].vdc_uuid = events_sorted[t][j].vdc_uuid
           /\ events_sorted[t][i].vm_uuid = events_sorted[t][j].vm_uuid) => i = j

\* C30: for an input of batch_vdcs in which (VDC uuid, VM uuid) is unique
\* within each tick, the result has the non-empty ticks of the input and no
\* other, in ascending order, and each of them with the same events as in
\* the input, each as often as there: no event is lost and none is added.
C30_BatchKeepsEvents ==
    (pc # "sanitized" /\ UniqueKeysInTicks) =>
       /\ {batched[i].tick : i \in 1..Len(batched)}
             = {t \in DOMAIN events_sorted : events_sorted[t] # <<>>}
       /\ \A i, j \in 1..Len(batched) : i < j => batched[i].tick < batched[j].tick
       /\ \A i \in 1..Len(batched) :
             LET in == events_sorted[batched[i].tick]
                 out == batched[i].events
             IN /\ Len(out) = Len(in)
                /\ \A e \in SeqToSet(in) \cup SeqToSet(out) :
                      Occurrences(out, e) = Occurrences(in, e)

\* two ticks, and the events of one of them, of two VDCs, are not in the
\* order of the input
C30_Witness ==
    /\ pc = "batched"
    /\ UniqueKeysInTicks
    /\ Len(batched) = 2
    /\ \E i \in 1..Len(batched) :
          /\ Len(batched[i].events) >= 2
          /\ batched[i].events # events_sorted[batched[i].tick]
          /\ \E j \in 1..Len(batched[i].events) :
                batched[i].events[j].vdc_uuid # batched[i].events[1].vdc_uuid

\* C31: a VM whose DELETE event lies in tick T is in no peer list of a VM
\* whose CREATE event lies in tick T or in a later tick, and when a CREATE
\* event of tick T is decided, no VM that tick T deletes (or an earlier tick
\* has deleted) is counted in an alive list any more.
C31_DeletesFreeFirst ==
    /\ \A c \in DOMAIN vm_peers :
          \A p \in SeqToSet(vm_peers[c]) :
             vm_lifetime[p].delete_tick > vm_lifetime[c].create_tick
    /\ AtEvent(VM_CREATE_STR) =>
          \A v \in DOMAIN vdc_alive_vms :
             \A u \in SeqToSet(vdc_alive_vms[v]) :
                vm_lifetime[u].delete_tick > batched[tick_i].tick

\* with max_vdc_size 1, a CREATE event is about to be decided for a VDC
\* whose current physical VDC is empty because its VM is deleted in this tick
C31_Witness ==
    /\ AtEvent(VM_CREATE_STR)
    /\ max_vdc_size = 1
    /\ CurrentEvent.vdc_uuid \in DOMAIN vdc_uuid_map
    /\ vdc_alive_vms[vdc_uuid_map[CurrentEvent.vdc_uuid]] = <<>>
    /\ \E u \in DOMAIN vm2vdc :
          /\ vm2vdc[u] = vdc_uuid_map[CurrentEvent.vdc_uuid]
          /\ vm_lifetime[u].delete_tick = batched[tick_i].tick
          /\ u > CurrentEvent.vm_uuid

\* C32: two VMs whose CREATE events lie in the same tick and which are
\* assigned to the same physical VDC are each in the peer list of the other,
\* whichever of the two events comes first in the tick.
C32_SameTickCreatesArePeers ==
    \A a, b \in DOMAIN vm_peers :
       (/\ a # b
        /\ vm_lifetime[a].create_tick = vm_lifetime[b].create_tick
        /\ vm2vdc[a] = vm2vdc[b])
       => /\ a \in SeqToSet(vm_peers[b])
          /\ b \in SeqToSet(vm_peers[a])

\* three VMs made in one tick: two share the parent VDC and are peers of
\* each other, the third is alone in the child VDC
C32_Witness ==
    \E a, b, c \in DOMAIN vm_peers :
       /\ a < b
       /\ vm_lifetime[a].create_tick = vm_lifetime[b].create_tick
       /\ vm_lifetime[c].create_tick = vm_lifetime[a].create_tick
       /\ vm2vdc[a] = vm2vdc[b]
       /\ vm2vdc[c] # vm2vdc[a]
       /\ b \in SeqToSet(vm_peers[a])
       /\ a \in SeqToSet(vm_peers[b])
       /\ vm_peers[c] = <<>>

\* the events the first pass of _chop_vdcs has processed so far
ProcessedEvents ==
    LET done == Min(tick_i - 1, Len(batched))
    IN AllEvents(SubSeq(batched, 1, done))
       \o (IF tick_i >= 1 /\ tick_i <= Len(batched)
           THEN SubSeq(batched[tick_i].events, 1,
                       Min(event_i - 1, Len(batched[tick_i].events)))
           ELSE <<>>)

\* an event of the type and the VM has been processed
Processed(type, vm) ==
    \E k \in 1..Len(ProcessedEvents) :
       ProcessedEvents[k].type = type /\ ProcessedEvents[k].vm_uuid = vm

\* C33: after every event _chop_vdcs has processed, for a trace whose VDC
\* uuids do not hold the separator of child uuids, a VM is in the alive list
\* of the physical VDC P exactly when vm2vdc maps it to P, its CREATE event
\* has been processed and its DELETE event has not; no VM is in two alive
\* lists, and none is twice in one.
C33_AliveListsMatchMembership ==
    /\ \A p \in DOMAIN vdc_alive_vms : \A vm \in 1..MaxVms :
          vm \in SeqToSet(vdc_alive_vms[p])
             <=> /\ vm \in DOMAIN vm2vdc
                 /\ vm2vdc[vm] = p
                 /\ Processed(VM_CREATE_STR, vm)
                 /\ ~Processed(VM_DELETE_STR, vm)
    /\ \A vm \in 1..MaxVms :
          Processed(VM_CREATE_STR, vm)
             <=> (vm \in DOMAIN vm2vdc /\ vm2vdc[vm] \in DOMAIN vdc_alive_vms)
    /\ \A p \in DOMAIN vdc_alive_vms :
          Len(vdc_alive_vms[p]) = Cardinality(SeqToSet(vdc_alive_vms[p]))
    /\ \A p, q \in DOMAIN vdc_alive_vms :
          p # q => SeqToSet(vdc_alive_vms[p]) \cap SeqToSet(vdc_alive_vms[q]) = {}

\* in the middle of a tick: a VM of a parent VDC has been deleted, another
\* is alive in it, a third is alive in its child VDC, and an event is left
C33_Witness ==
    /\ pc = "chop"
    /\ event_i <= Len(batched[tick_i].events)
    /\ \E a, b, c \in DOMAIN vm2vdc :
          /\ vm2vdc[a] = vm2vdc[b]
          /\ vm2vdc[c] # vm2vdc[a]
          /\ Processed(VM_DELETE_STR, a)
          /\ vdc_alive_vms[vm2vdc[a]] = <<b>>
          /\ vdc_alive_vms[vm2vdc[c]] = <<c>>

\* C34: for a trace with unique VM uuids, a second run of sort_events,
\* sanitize, batch_vdcs, _chop_vdcs and _add_network on the same rows in
\* another order, with the same max_vdc_size and band_per_core, returns the
\* workload of the first run: the same ticks, the same events in the same
\* order inside each tick, the same physical VDC uuids and the same
\* connection maps.
C34_RowOrderDoesNotMatter ==
    (pc = "networked" /\ first_run # <<>>) => ml_workload = first_run[1].ml_workload

\* the second run is over; its file had two VMs of one creation time in the
\* reverse order of their uuids, and one VM is in a child VDC
C34_Witness ==
    /\ pc = "networked"
    /\ first_run # <<>>
    /\ Len(csv) >= 2
    /\ csv[2].vm_uuid < csv[1].vm_uuid
    /\ csv[1].create_time = csv[2].create_time
    /\ \E e \in CreateEventsOf(ml_workload) : e.vdc_uuid \notin LogicalVdcs

\* the logical VDC of a VM: the VDC uuid of its row
LogicalVdcOf(vm) == csv[CHOOSE i \in 1..Len(csv) : csv[i].vm_uuid = vm].vdc_uuid

\* C35: no physical VDC holds VMs of two logical VDCs, whatever the logical
\* VDC uuids of the trace are: two VMs that _chop_vdcs has put in one physical
\* VDC have rows of one VDC uuid.
C35_PhysicalVdcOfOneLogicalVdc ==
    \A a \in DOMAIN vm2vdc : \A b \in DOMAIN vm2vdc :
        vm2vdc[a] = vm2vdc[b] => LogicalVdcOf(a) = LogicalVdcOf(b)

\* the messages of the assertions of _check_virtual_network
CheckAssertions ==
    {"AssertionError: empty tick", "AssertionError: band > 0",
     "AssertionError: weight == band", "AssertionError: nodes",
     "AssertionError: edges"}

\* C36: when a CREATE event of the workload carries a connection of bandwidth
\* 0, _check_virtual_network stops on a failed assertion, generate_ml returns
\* nothing and nothing is written.
C36_ZeroBandFailsTheCheck ==
    ~AllBandsPositive =>
        /\ pc \in {"networked", "abort"}
        /\ pc = "abort" => err \in CheckAssertions
        /\ output = <<>>

\* the check has stopped on a workload whose band_per_core is positive: the
\* bandwidth with a VM of half a core was cut down to 0
C36_Witness ==
    /\ pc = "abort"
    /\ band_per_core > 0
    /\ ~AllBandsPositive
    /\ \E e \in CreateEventsOf(ml_workload) :
          \E i \in 1..Len(e.net_conns_in_mbps) : e.net_conns_in_mbps[i].band > 0

\* C37: after calls of allocate_cores, free_cores, allocate_ram and free_ram
\* of which none has failed an assertion, the remaining cores of the Server
\* are between 0 and its cores and the remaining RAM is between 0 and its
\* RAM.
C37_RemainingWithinCapacity ==
    (server # <<>> /\ ~server[1].asserted) =>
        /\ 0 <= server[1]._cores_remaining
        /\ server[1]._cores_remaining <= server[1].cores
        /\ 0 <= server[1]._ram_remaining
        /\ server[1]._ram_remaining <= server[1].ram

=============================================================================
